---------------------------- MODULE Spec2Model ----------------------------
(***************************************************************************)
(* logimu: the IR interpreter (simulator/ir/program.rs).  A State runs a   *)
(* compiled Program over two memory banks (read, write) and two dirty sets *)
(* (update_dirty, mark_dirty).                                             *)
(*                                                                         *)
(* Slots, node indices, input indices and nexus indices are 0-based as in  *)
(* the source; a Rust slice s is a TLA+ sequence whose element s[i] is     *)
(* Seq[i + 1]; the two banks are functions over 0 .. memory_size - 1.      *)
(***************************************************************************)
EXTENDS Integers, Sequences, FiniteSets, TLC

\* ------------------------------------------------------------------ bounds

\* Width of a machine word in the model.  usize is 64 bits wide on the
\* targets logimu builds for; TLC's integers are 32 bits wide, so words are
\* modelled narrower.  Only Slli can overflow a word.
WordBits == 8

\* External input values range over 0 .. MaxValue.
MaxValue == 2

\* Consecutive step() calls are counted up to MaxSteps.
MaxSteps == 4

\* ------------------------------------------------------------- word maths

RECURSIVE Pow2(_)
Pow2(n) == IF n = 0 THEN 1 ELSE 2 * Pow2(n - 1)

\* usize::MAX, the slot of an unconnected port.
SENTINEL == Pow2(WordBits) - 1

RECURSIVE BitAnd(_, _)
BitAnd(a, b) ==
    IF a = 0 \/ b = 0 THEN 0
    ELSE (IF a % 2 = 1 /\ b % 2 = 1 THEN 1 ELSE 0) + 2 * BitAnd(a \div 2, b \div 2)

RECURSIVE BitOr(_, _)
BitOr(a, b) ==
    IF a = 0 THEN b
    ELSE IF b = 0 THEN a
    ELSE (IF a % 2 = 1 \/ b % 2 = 1 THEN 1 ELSE 0) + 2 * BitOr(a \div 2, b \div 2)

RECURSIVE BitXor(_, _)
BitXor(a, b) ==
    IF a = 0 THEN b
    ELSE IF b = 0 THEN a
    ELSE (IF a % 2 # b % 2 THEN 1 ELSE 0) + 2 * BitXor(a \div 2, b \div 2)

\* acc <<= i on a word: the bits shifted out are lost.
ShiftLeft(a, i) == (a * Pow2(i)) % Pow2(WordBits)

\* acc >>= i
ShiftRight(a, i) == a \div Pow2(i)

Min(a, b) == IF a < b THEN a ELSE b

\* ----------------------------------------------------------------- values

\* enum Value { Set(usize), Floating, Short }
ValueSet(v) == [tag |-> "Set", v |-> v]
ValueFloating == [tag |-> "Floating", v |-> 0]
ValueShort == [tag |-> "Short", v |-> 0]

\* -------------------------------------------------------------------- IR

\* enum IrOp: every op is a record of the same shape; the fields an op does
\* not have are 0 / <<>>.
IrOp(op, a, node, memory) == [op |-> op, a |-> a, node |-> node, memory |-> memory]
CheckDirty(a, node) == IrOp("CheckDirty", a, node, <<>>)
Save(out) == IrOp("Save", out, 0, <<>>)
And(a) == IrOp("And", a, 0, <<>>)
Or(a) == IrOp("Or", a, 0, <<>>)
Xor(a) == IrOp("Xor", a, 0, <<>>)
Andi(i) == IrOp("Andi", i, 0, <<>>)
Xori(i) == IrOp("Xori", i, 0, <<>>)
Slli(i) == IrOp("Slli", i, 0, <<>>)
Srli(i) == IrOp("Srli", i, 0, <<>>)
Load(value) == IrOp("Load", value, 0, <<>>)
Copy(a) == IrOp("Copy", a, 0, <<>>)
Read(memory) == IrOp("Read", 0, 0, memory)

\* The ops that read a slot of the read bank into the accumulator.
ReadingOps == {"And", "Or", "Xor", "Copy"}

\* rd[a] of Copy / And / Or / Xor: the slot is read from the read bank.
ReadSlotFromWrite(rd, wr, a) == wr[a]
ReadSlot(rd, wr, a) == rd[a]

\* The test of CheckDirty: only bit 0 of the two banks is compared.
CheckDirtyTestInverted(w, r) == (w % 2) = (r % 2)
CheckDirtyTest(w, r) == (w % 2) # (r % 2)

\* let mut acc = 0
AccInit == 0

\* memory.slice.get(acc).unwrap_or(&0)
ReadMemoryOffByOne(memory, acc) == IF acc + 1 < Len(memory) THEN memory[acc + 2] ELSE 0
ReadMemory(memory, acc) == IF acc < Len(memory) THEN memory[acc + 1] ELSE 0

\* One op of run() that touches no bank: the new accumulator.
AccOp(op, acc) ==
    CASE op.op = "Andi" -> BitAnd(acc, op.a)
      [] op.op = "Xori" -> BitXor(acc, op.a)
      [] op.op = "Slli" -> ShiftLeft(acc, op.a)
      [] op.op = "Srli" -> ShiftRight(acc, op.a)
      [] op.op = "Load" -> op.a
      [] op.op = "Read" -> ReadMemory(op.memory, acc)
      [] OTHER -> acc

\* An op of run() panics when it indexes a bank out of bounds, or (with
\* overflow checks on, as in the debug build debug_assert! is for) when it
\* shifts by the width of a word or more.
OpPanics(op, wr) ==
    \/ op.op \in ReadingOps \cup {"CheckDirty", "Save"} /\ op.a \notin DOMAIN wr
    \/ op.op \in {"Slli", "Srli"} /\ op.a >= WordBits

\* fn run(ops, rd, wr, dirty), from op k on with accumulator acc.  The result
\* is the write bank and the dirty set as run() leaves them; ok is FALSE when
\* an op panicked (the ops before it have had their effect).
RECURSIVE RunFrom(_, _, _, _, _, _)
RunFrom(ops, k, acc, rd, wr, dirty) ==
    IF k > Len(ops) THEN [wr |-> wr, dirty |-> dirty, ok |-> TRUE]
    ELSE LET op == ops[k] IN
         IF OpPanics(op, wr) THEN [wr |-> wr, dirty |-> dirty, ok |-> FALSE]
         ELSE CASE op.op = "CheckDirty" ->
                     RunFrom(ops, k + 1, acc, rd, wr,
                             IF CheckDirtyTest(wr[op.a], rd[op.a])
                             THEN dirty \cup {op.node} ELSE dirty)
                [] op.op = "Save" ->
                     RunFrom(ops, k + 1, acc, rd, [wr EXCEPT ![op.a] = acc], dirty)
                [] op.op = "And" ->
                     RunFrom(ops, k + 1, BitAnd(acc, ReadSlot(rd, wr, op.a)), rd, wr, dirty)
                [] op.op = "Or" ->
                     RunFrom(ops, k + 1, BitOr(acc, ReadSlot(rd, wr, op.a)), rd, wr, dirty)
                [] op.op = "Xor" ->
                     RunFrom(ops, k + 1, BitXor(acc, ReadSlot(rd, wr, op.a)), rd, wr, dirty)
                [] op.op = "Copy" ->
                     RunFrom(ops, k + 1, ReadSlot(rd, wr, op.a), rd, wr, dirty)
                [] OTHER ->
                     RunFrom(ops, k + 1, AccOp(op, acc), rd, wr, dirty)

run(ops, rd, wr, dirty) == RunFrom(ops, 1, AccInit, rd, wr, dirty)


\* --------------------------------------------------------------- programs

\* struct Program.  input_map and output_map hold <<slot, mask>> pairs.
Program(nodes, memory_size, nexus_map, input_map, output_map, input_nodes_map) ==
    [nodes |-> nodes, memory_size |-> memory_size, nexus_map |-> nexus_map,
     input_map |-> input_map, output_map |-> output_map,
     input_nodes_map |-> input_nodes_map]

\* Program::default(): no node, no memory, no input, no output.
ProgEmpty == Program(<<>>, 0, <<>>, <<>>, <<>>, <<>>)

\* In(2 bits) -> Not -> Not -> And(.., In) -> Out(2 bits), and one Out that
\* is not connected.  Every node checks its output slot after saving it.
ProgChain ==
    Program(<< <<Copy(0), Xori(3), Save(1), CheckDirty(1, 1)>>,
               <<Copy(1), Xori(3), Save(2), CheckDirty(2, 2)>>,
               <<Copy(2), And(0), Save(3)>> >>,
            4, <<0, 1, 2, 3>>,
            << <<0, 3>> >>,
            << <<3, 3>>, <<SENTINEL, 3>> >>,
            << {0, 2} >>)

\* The same circuit with each CheckDirty ahead of the node's own ops.
ProgChainCheckFirst ==
    Program(<< <<CheckDirty(1, 1), Copy(0), Xori(3), Save(1)>>,
               <<CheckDirty(2, 2), Copy(1), Xori(3), Save(2)>>,
               <<Copy(2), And(0), Save(3)>> >>,
            4, <<0, 1, 2, 3>>,
            << <<0, 3>> >>,
            << <<3, 3>>, <<SENTINEL, 3>> >>,
            << {0, 2} >>)

\* Two 1-bit inputs -> And -> Not -> Out(1 bit).
ProgGates ==
    Program(<< <<Copy(0), And(1), Save(2), CheckDirty(2, 1)>>,
               <<Copy(2), Xori(1), Save(3)>> >>,
            4, <<0, 1, 2, 3>>,
            << <<0, 1>>, <<1, 1>> >>,
            << <<3, 1>> >>,
            << {0}, {0} >>)

\* An input that is not connected, an input that addresses a ROM, and a
\* node that uses the immediate ops.
ProgRom ==
    Program(<< <<Copy(0), Read(<<2, 3, 1>>), Save(1), CheckDirty(1, 1)>>,
               <<Load(1), Slli(1), Or(1), Srli(1), Andi(3), Xor(0), Save(2)>> >>,
            3, <<0, 1, 2>>,
            << <<SENTINEL, 3>>, <<0, 3>> >>,
            << <<2, 3>> >>,
            << {}, {0, 1} >>)

\* Two outputs wired to one nexus: both nodes save to slot 2.
ProgShort ==
    Program(<< <<Copy(0), Save(2), CheckDirty(2, 2)>>,
               <<Copy(1), Save(2), CheckDirty(2, 2)>>,
               <<Copy(2), Save(3)>> >>,
            4, <<0, 1, 2, 3>>,
            << <<0, 3>>, <<1, 3>> >>,
            << <<3, 3>> >>,
            << {0}, {1} >>)

\* A loop: slot 1 feeds the node that drives it (it oscillates while the
\* input is 1).
ProgLoop ==
    Program(<< <<Copy(1), Xori(1), And(0), Save(1), CheckDirty(1, 0)>> >>,
            2, <<0, 1>>,
            << <<0, 1>> >>,
            << <<1, 1>> >>,
            << {0} >>)

\* A gate with a port that is not connected: the slot handed to its
\* generate_ir is usize::MAX, and the gate emits the op all the same.  Node 0
\* is a Not between two connected nexuses, node 1 an And whose second input
\* is not connected.
ProgUnconnected ==
    Program(<< <<Copy(0), Xori(1), Save(1)>>,
               <<Copy(1), And(SENTINEL), Save(2)>> >>,
            3, <<0, 1, 2>>,
            << >>,
            << <<2, 1>> >>,
            << >>)

\* In(all bits) -> ReadOnlyMemory [1, 2] -> Out(all bits): the input is the
\* address, the output the word read.
RomLookupContents == <<1, 2>>
ProgRomLookup ==
    Program(<< <<Copy(0), Read(RomLookupContents), Save(1)>> >>,
            2, <<0, 1>>,
            << <<0, SENTINEL>> >>,
            << <<1, SENTINEL>> >>,
            << {0} >>)

Programs == {ProgEmpty, ProgChain, ProgChainCheckFirst, ProgGates, ProgRom,
             ProgShort, ProgLoop, ProgUnconnected, ProgRomLookup}

\* The slots node n (0-based) of program p saves to / reads from.
SavedBy(p, n) == {p.nodes[n + 1][k].a : k \in {j \in 1..Len(p.nodes[n + 1]) : p.nodes[n + 1][j].op = "Save"}}
ReadBy(p, n) == {p.nodes[n + 1][k].a : k \in {j \in 1..Len(p.nodes[n + 1]) : p.nodes[n + 1][j].op \in ReadingOps}}
NodeIds(p) == 0 .. Len(p.nodes) - 1

\* The largest number of external inputs / outputs a program has.  The
\* slices handed to write_inputs and read_outputs have up to that many
\* elements: too few, as many as, or more than the program at hand has.
MaxInputsLen == CHOOSE n \in 0 .. 8 : /\ \E p \in Programs : Len(p.input_map) = n
                                      /\ \A p \in Programs : Len(p.input_map) <= n
MaxOutputsLen == CHOOSE n \in 0 .. 8 : /\ \E p \in Programs : Len(p.output_map) = n
                                       /\ \A p \in Programs : Len(p.output_map) <= n

\* ------------------------------------------------------------------ state

VARIABLES
    program,       \* State::program
    update_dirty,  \* State::update_dirty
    mark_dirty,    \* State::mark_dirty
    write,         \* State::write
    read,          \* State::read
    panicked,      \* a call has panicked: the State is gone with its thread
    last_op,       \* the call made last
    last_inputs,   \* the slice the last write_inputs was given
    last_ret,      \* what the last step() returned
    steps,         \* step() calls since the last new_state/adapt/write_inputs
    outputs        \* the slice the last read_outputs has filled

\* An Arena<T> and what its caller has seen of it.
VARIABLES
    list,            \* Arena::list
    free,            \* Arena::free
    arena_panicked,  \* a call has hit unreachable!()
    arena_op,        \* the call made last
    arena_handle,    \* the handle the last call was given or has returned
    arena_ret,       \* what the last remove returned
    live,            \* handle -> value, for the inserts no remove has been called on
    removed,         \* the handles remove has returned a value for and no insert has returned since
    freed            \* those handles in the order remove returned them, the latest last

\* A Circuit and the calls made on it.
VARIABLES
    zones,             \* Circuit::zones, the tiles the menus reach
    wires,             \* Circuit::wires
    graph,             \* Circuit::graph
    circuit_panicked,  \* a call has panicked
    circuit_op,        \* the call made last
    circuit_prev,      \* the call made before it
    probed             \* the last intersect_point: its position, its callbacks

\* One call of a function that keeps no state, and what it returned.
VARIABLES
    fn_call,  \* the function called and its arguments
    fn_ret    \* <<>> until the call has returned, then <<what it returned>>

\* A ReadOnlyMemory component and the tables its generate_ir calls have emitted.
VARIABLES
    contents,    \* ReadOnlyMemory::contents
    cached,      \* ReadOnlyMemory::cached: the Arc held, if any
    heap,        \* the Arc<[usize]> allocations made so far, by address
    emitted,     \* the Arcs of the Read ops emitted so far, the latest last
    rom_op,      \* the call made last
    rom_ret      \* what it returned: TRUE for Ok(()) and for an emitted Read

\* The log of the GUI and what has been pushed onto it.
VARIABLES
    entries,     \* Log::entries, the front first
    pushed,      \* every entry pushed so far, the first push first
    log_script   \* the tags the caller logs with, in turn

state_vars == <<program, update_dirty, mark_dirty, write, read, panicked,
                last_op, last_inputs, last_ret, steps, outputs>>

arena_vars == <<list, free, arena_panicked, arena_op, arena_handle, arena_ret,
                live, removed, freed>>

circuit_vars == <<zones, wires, graph, circuit_panicked, circuit_op, circuit_prev,
                  probed>>

fn_vars == <<fn_call, fn_ret>>

rom_vars == <<contents, cached, heap, emitted, rom_op, rom_ret>>

log_vars == <<entries, pushed, log_script>>

vars == <<state_vars, arena_vars, circuit_vars, fn_vars, rom_vars, log_vars>>

\* (0..n).map(|_| 0).collect()
ZeroBank(n) == [i \in 0 .. n - 1 |-> 0]

\* Program::new_state
new_state(p) ==
    [program |-> p,
     update_dirty |-> 0 .. Len(p.nodes) - 1,
     mark_dirty |-> {},
     write |-> ZeroBank(p.memory_size),
     read |-> ZeroBank(p.memory_size)]

\* The State the variables hold.
Self ==
    [program |-> program, update_dirty |-> update_dirty, mark_dirty |-> mark_dirty,
     write |-> write, read |-> read]

\* ------------------------------------------------------------------ arena

\* The most slots the arena grows to, and the elements stored are 1 .. MaxElement.
MaxSlots == 3
MaxElement == 2

\* Option<T>
None == <<>>
Some(x) == <<x>>

\* enum Entry<T>
Free(next) == [tag |-> "Free", next |-> next]
Occupied(value) == [tag |-> "Occupied", value |-> value]

\* struct Arena<T>
Arena(l, f) == [list |-> l, free |-> f]

\* Arena::default
ArenaDefault == Arena(<<>>, None)

\* The elements stored: a number, and the handle the element has learnt
\* to be its own, if any.
Element(v) == [v |-> v, handle |-> None]
Elements == {Element(v) : v \in 1 .. MaxElement}

\* The closure handed to insert_with: |_| element when learns is not set,
\* |h| the element with h stored in it when it is.
Closure(element, learns) == [element |-> element, learns |-> learns]
Call(f, handle) ==
    IF f.learns THEN [f.element EXCEPT !.handle = Some(handle)] ELSE f.element

\* Arena::get: self.list.get(handle.0).and_then(Entry::as_occupied)
get(a, handle) ==
    IF handle < Len(a.list) /\ a.list[handle + 1].tag = "Occupied"
    THEN Some(a.list[handle + 1].value)
    ELSE None

\* Arena::insert_with storing at the head of the free list without the test
\* that the entry there is Free.
insert_withUnchecked(a, f) ==
    IF a.free # None /\ a.free[1] < Len(a.list)
    THEN LET fr == a.free[1]
         IN  [arena |-> Arena([a.list EXCEPT ![fr + 1] = Occupied(Call(f, fr))],
                              IF a.list[fr + 1].tag = "Free" THEN a.list[fr + 1].next ELSE None),
              handle |-> fr, ok |-> TRUE]
    ELSE [arena |-> Arena(Append(a.list, Occupied(Call(f, Len(a.list)))), a.free),
          handle |-> Len(a.list), ok |-> TRUE]
\* Arena::insert_with.  ok is FALSE when the call ends in unreachable!().
insert_with(a, f) ==
    IF a.free # None
    THEN LET fr == a.free[1]
         IN  IF fr < Len(a.list) /\ a.list[fr + 1].tag = "Free"
             THEN [arena |-> Arena([a.list EXCEPT ![fr + 1] = Occupied(Call(f, fr))],
                                   a.list[fr + 1].next),
                   handle |-> fr, ok |-> TRUE]
             ELSE [arena |-> a, handle |-> fr, ok |-> FALSE]
    ELSE [arena |-> Arena(Append(a.list, Occupied(Call(f, Len(a.list)))), a.free),
          handle |-> Len(a.list), ok |-> TRUE]

\* Arena::insert: self.insert_with(|_| element)
insert(a, element) == insert_with(a, Closure(element, FALSE))

\* mem::replace(e, Entry::Free { next }) with the entry left Occupied.
ReplaceEntryKept(e, next) == e
\* mem::replace(e, Entry::Free { next }): the entry as it is after the match.
\* An entry that was Free already is put back (*e = free).
ReplaceEntry(e, next) == IF e.tag = "Occupied" THEN Free(next) ELSE e

\* Arena::remove
remove(a, handle) ==
    IF handle >= Len(a.list) THEN [arena |-> a, ret |-> None]
    ELSE LET e == a.list[handle + 1]
             next == a.free
         IN  [arena |-> Arena([a.list EXCEPT ![handle + 1] = ReplaceEntry(e, next)],
                              Some(handle)),
              ret |-> IF e.tag = "Occupied" THEN Some(e.value) ELSE None]

\* The Arena the variables hold.
SelfArena == Arena(list, free)

\* A fresh arena nothing has been called on.
ArenaInit ==
    /\ list = ArenaDefault.list
    /\ free = ArenaDefault.free
    /\ arena_panicked = FALSE
    /\ arena_op = "default"
    /\ arena_handle = 0
    /\ arena_ret = None
    /\ live = <<>>
    /\ removed = {}
    /\ freed = <<>>

\* ---------------------------------------------------------------- circuit

\* u16::MAX and i8::MIN: the ends of the ranges a coordinate and an offset
\* are kept in; a zone is a square of ZONE_SIZE by ZONE_SIZE points.
U16_MAX == 65535
I8_MIN == -128
ZONE_SIZE == 64
I32_MAX == 2147483647

\* struct Point, struct PointOffset
Point(x, y) == [x |-> x, y |-> y]
PointOffset(x, y) == [x |-> x, y |-> y]

\* i8::wrapping_neg: the negation of i8::MIN is i8::MIN.
wrapping_neg(v) == IF v = I8_MIN THEN Some(I8_MIN) ELSE Some(0 - v)
\* i8::checked_neg
checked_neg(v) == IF v = I8_MIN THEN None ELSE Some(0 - v)

\* impl Add<PointOffset> for Point: None when a coordinate leaves u16.
PointAdd(self, rhs) ==
    LET x == self.x + rhs.x
        y == self.y + rhs.y
    IN  IF x \in 0 .. U16_MAX /\ y \in 0 .. U16_MAX THEN Some(Point(x, y)) ELSE None

\* impl Mul<PointOffset> for Direction: None when a negation overflows.
DirectionMul(self, rhs) ==
    LET nx == checked_neg(rhs.x)
        ny == checked_neg(rhs.y)
    IN  CASE self = "Right" -> Some(PointOffset(rhs.x, rhs.y))
          [] self = "Down" -> IF ny = None THEN None ELSE Some(PointOffset(ny[1], rhs.x))
          [] self = "Left" -> IF nx = None \/ ny = None THEN None
                              ELSE Some(PointOffset(nx[1], ny[1]))
          [] self = "Up" -> IF nx = None THEN None ELSE Some(PointOffset(rhs.y, nx[1]))

\* (d * offset).and_then(|offset| p + offset)
PortPosition(p, d, offset) ==
    IF DirectionMul(d, offset) = None THEN None
    ELSE PointAdd(p, DirectionMul(d, offset)[1])

Max(a, b) == IF a >= b THEN a ELSE b

\* Aabb::new, Aabb::intersect_point
Aabb(p1, p2) ==
    [min |-> Point(Min(p1.x, p2.x), Min(p1.y, p2.y)),
     max |-> Point(Max(p1.x, p2.x), Max(p1.y, p2.y))]
AabbIntersectPoint(self, p) ==
    /\ self.min.x <= p.x /\ p.x <= self.max.x
    /\ self.min.y <= p.y /\ p.y <= self.max.y

\* struct Wire, Wire::aabb
Wire(from, to) == [from |-> from, to |-> to]
WireAabb(self) == Aabb(self.from, self.to)

Abs(v) == IF v < 0 THEN 0 - v ELSE v

\* The product of two differences of u16 coordinates, exact: its sign and
\* the two 16-bit halves of its magnitude.  The factors are multiplied byte
\* by byte (a = 256 * a1 + a0, b = 256 * b1 + b0), so that no intermediate
\* value leaves 32 bits.
Halves(negative, high, low) ==
    [negative |-> negative, hi |-> high + low \div 65536, lo |-> low % 65536]
Carried(negative, high, mid, low) ==
    Halves(negative, high + mid \div 256, low + (mid % 256) * 256)
ByBytes(negative, a1, a0, b1, b0) ==
    Carried(negative, a1 * b1, a1 * b0 + a0 * b1, a0 * b0)
ExactProduct(a, b) ==
    ByBytes((a < 0 /\ b > 0) \/ (a > 0 /\ b < 0),
            Abs(a) \div 256, Abs(a) % 256, Abs(b) \div 256, Abs(b) % 256)

\* a * b on i32 overflows: the product lies outside i32.  No product of
\* two differences of u16 coordinates is i32::MIN, so the magnitude decides.
MulOverflows(a, b) == a # 0 /\ b # 0 /\ Abs(a) > I32_MAX \div Abs(b)

\* The low 32 bits of a product in two's complement, as two 16-bit halves.
TwosComplement(m) ==
    IF ~m.negative \/ (m.hi = 0 /\ m.lo = 0) THEN <<m.hi, m.lo>>
    ELSE IF m.lo = 0 THEN <<(65536 - m.hi) % 65536, 0>>
    ELSE <<65535 - m.hi, 65536 - m.lo>>

\* a * b on i32 as a build without overflow checks computes it.
wrapping_mul(a, b) == TwosComplement(ExactProduct(a, b))

\* dx * dyp == dy * dxp of Wire::intersect_point, and its overflow.
SlopeTest(dx, dy, dxp, dyp) == wrapping_mul(dx, dyp) = wrapping_mul(dy, dxp)
SlopeTestOverflows(dx, dy, dxp, dyp) == MulOverflows(dx, dyp) \/ MulOverflows(dy, dxp)

\* Wire::intersect_point overflows an i32: with overflow checks the call
\* panics, without them the products wrap.
WireIntersectPointOverflows(self, point) ==
    /\ AabbIntersectPoint(WireAabb(self), point)
    /\ SlopeTestOverflows(self.to.x - self.from.x, self.to.y - self.from.y,
                          point.x - self.from.x, point.y - self.from.y)

\* Wire::intersect_point without the test of the slope.
WireIntersectPointAabbOnly(self, point) == AabbIntersectPoint(WireAabb(self), point)
\* Wire::intersect_point, when it returns.
WireIntersectPoint(self, point) ==
    /\ AabbIntersectPoint(WireAabb(self), point)
    /\ SlopeTest(self.to.x - self.from.x, self.to.y - self.from.y,
                 point.x - self.from.x, point.y - self.from.y)

\* A CircuitComponent: where its inputs and its outputs lie.  The shapes
\* are those of the circuit's test: Out has its one port on the component
\* itself, Not has the input left and the output right of it.
Component(kind, ins, outs) == [kind |-> kind, inputs |-> ins, outputs |-> outs]
CompOut == Component("Out", <<PointOffset(0, 0)>>, <<>>)
CompNot == Component("Not", <<PointOffset(-1, 0)>>, <<PointOffset(1, 0)>>)

\* enum Port
PortInput(node, port) == [kind |-> "Input", node |-> node, port |-> port]
PortOutput(node, port) == [kind |-> "Output", node |-> node, port |-> port]

\* Graph: its nodes (component, position and direction, the nexus of every
\* port) and its nexuses (the ports connected, the wires of the nexus).
\* Handles count from 0 in the order of creation: nothing is ever removed.
Graph(nodes, nexuses) == [nodes |-> nodes, nexuses |-> nexuses]
GraphNew == Graph(<<>>, <<>>)

\* Graph::add: the new node has no port connected.
GraphAdd(g, component, position, direction) ==
    [graph |-> Graph(Append(g.nodes,
                            [component |-> component, position |-> position,
                             direction |-> direction,
                             inputs |-> [i \in 1 .. Len(component.inputs) |-> None],
                             outputs |-> [i \in 1 .. Len(component.outputs) |-> None]]),
                     g.nexuses),
     handle |-> Len(g.nodes)]

\* Graph::new_nexus
new_nexus(g, userdata) ==
    [graph |-> Graph(g.nodes,
                     Append(g.nexuses, [inputs |-> {}, outputs |-> {}, userdata |-> userdata])),
     handle |-> Len(g.nexuses)]

\* graph.nexus_mut(nexus).unwrap().userdata.push(index)
PushUserdata(g, nexus, index) ==
    Graph(g.nodes, [g.nexuses EXCEPT ![nexus + 1].userdata = Append(@, index)])

\* The port table of a node that holds the given port, and the nexus the
\* port is connected to.
PortTable(node, port) == IF port.kind = "Input" THEN node.inputs ELSE node.outputs
PortNexus(g, port) == PortTable(g.nodes[port.node + 1], port)[port.port + 1]

\* Graph::connect fails (and the caller's unwrap panics) on a node or a
\* nexus that is not there and on a port the component does not have.
ConnectFails(g, port, nexus) ==
    \/ port.node >= Len(g.nodes)
    \/ nexus >= Len(g.nexuses)
    \/ port.port >= Len(PortTable(g.nodes[port.node + 1], port))

\* The ports of a nexus once the port has left it.
WithoutPortKept(set, port) == set
WithoutPort(set, port) == set \ {<<port.node, port.port>>}

\* Graph::connect: the port leaves the nexus it was connected to, joins the
\* given one, and the port table of its node names the given nexus.
connect(g, port, nexus) ==
    LET old == PortNexus(g, port)
        left == IF old = None THEN g.nexuses
                ELSE IF port.kind = "Input"
                     THEN [g.nexuses EXCEPT ![old[1] + 1].inputs = WithoutPort(@, port)]
                     ELSE [g.nexuses EXCEPT ![old[1] + 1].outputs = WithoutPort(@, port)]
        joined == IF port.kind = "Input"
                  THEN [left EXCEPT ![nexus + 1].inputs = @ \cup {<<port.node, port.port>>}]
                  ELSE [left EXCEPT ![nexus + 1].outputs = @ \cup {<<port.node, port.port>>}]
        nodes == IF port.kind = "Input"
                 THEN [g.nodes EXCEPT ![port.node + 1].inputs[port.port + 1] = Some(nexus)]
                 ELSE [g.nodes EXCEPT ![port.node + 1].outputs[port.port + 1] = Some(nexus)]
    IN  Graph(nodes, joined)


\* The wires a caller adds, at most MaxWires of them: two parallel wires and
\* one that bridges them, a diagonal through the end (5,5) of two of them, a
\* wire that crosses the diagonal there, and a wire that starts there.
MaxWires == 3
WireMenu ==
    {Wire(Point(0, 0), Point(0, 5)), Wire(Point(5, 0), Point(5, 5)),
     Wire(Point(0, 5), Point(5, 5)),
     Wire(Point(4, 4), Point(6, 6)), Wire(Point(5, 4), Point(5, 7)),
     Wire(Point(5, 5), Point(5, 7))}

\* The components a caller places, at most MaxComponents of them: an Out
\* with its input on (5,5), and a Not turned Down with its input on (5,5)
\* and its output on (5,7).
MaxComponents == 1
ComponentMenu ==
    {<<CompOut, Point(5, 5), "Right">>, <<CompNot, Point(5, 6), "Down">>}

\* The zone a point falls in: self.zones[y][x]
ZoneOf(position) == <<position.y \div ZONE_SIZE, position.x \div ZONE_SIZE>>

\* The wires and the points that put the zones to work: a zero-height wire
\* over the border of two zones, a zero-width wire through three zones, a
\* short diagonal over the corner of four zones, a wire of no length on that
\* corner, and the diagonal of the whole grid.
IndexWireMenu ==
    {Wire(Point(60, 10), Point(70, 10)), Wire(Point(10, 130), Point(10, 60)),
     Wire(Point(62, 62), Point(66, 66)), Wire(Point(64, 64), Point(64, 64)),
     Wire(Point(0, 0), Point(U16_MAX, U16_MAX))}
IndexPoints ==
    {Point(60, 10), Point(63, 10), Point(64, 10), Point(70, 10), Point(71, 10),
     Point(10, 60), Point(10, 64), Point(10, 128), Point(10, 130),
     Point(63, 63), Point(64, 64), Point(66, 66), Point(64, 63),
     Point(U16_MAX, U16_MAX)}

\* The zones the model keeps, of the 1024 x 1024 of the grid: the rows and
\* the columns that a point of the menus falls in. add_wire writes the other
\* zones as well, and no call reads them.
TileCoords ==
    LET points == IndexPoints \cup UNION {{w.from, w.to} : w \in WireMenu \cup IndexWireMenu}
    IN  UNION {{ZoneOf(p)[1], ZoneOf(p)[2]} : p \in points}
Tiles == TileCoords \X TileCoords

\* struct Circuit: zones, wires (each with the handle of its nexus), graph.
Circuit(z, w, g) == [zones |-> z, wires |-> w, graph |-> g]

\* Circuit::default
CircuitDefault == Circuit([t \in Tiles |-> <<>>], <<>>, GraphNew)

\* Zone::COMPONENT_FLAG = 1 << (size_of::<usize>() - 1), and the bit that
\* add_component asserts clear, 1 << size_of_val(&raw): size_of is in bytes.
COMPONENT_FLAG == 128
HANDLE_FLAG == 256
FlagSet(n, flag) == (n \div flag) % 2 = 1

\* Zone::intersect_point by way of Circuit::intersect_point: the wires of
\* the zone of the position that the position lies on, in the order of the
\* zone (the calls of wire_callback).
RECURSIVE ZoneHits(_, _, _, _)
ZoneHits(nodes, k, ws, position) ==
    IF k > Len(nodes) THEN <<>>
    ELSE IF WireIntersectPoint(ws[nodes[k] + 1][1], position)
         THEN <<nodes[k]>> \o ZoneHits(nodes, k + 1, ws, position)
         ELSE ZoneHits(nodes, k + 1, ws, position)
intersect_point(c, position) == ZoneHits(c.zones[ZoneOf(position)], 1, c.wires, position)

\* The places in the zone of the position of the wires whose test multiplies
\* past i32, where a build with overflow checks panics.
OverflowsAt(c, position) ==
    LET nodes == c.zones[ZoneOf(position)]
    IN  {k \in 1 .. Len(nodes) : WireIntersectPointOverflows(c.wires[nodes[k] + 1][1], position)}

\* The calls of wire_callback that such a build makes before it panics.
HitsBefore(c, position, k) ==
    ZoneHits(SubSeq(c.zones[ZoneOf(position)], 1, k - 1), 1, c.wires, position)

\* Circuit::find_ports_at_internal: the input ports (kind "Input") or the
\* output ports of all nodes that lie on pos, as pairs of node and port.
PortsAt(g, pos, kind) ==
    {np \in (0 .. Len(g.nodes) - 1) \X (0 .. 7) :
        LET node == g.nodes[np[1] + 1]
            offsets == IF kind = "Input" THEN node.component.inputs
                       ELSE node.component.outputs
        IN  /\ np[2] < Len(offsets)
            /\ PortPosition(node.position, node.direction, offsets[np[2] + 1]) = Some(pos)}

\* The port the callback has stored last: nodes in the order of the graph,
\* ports in the order of the component.
LastPort(set) ==
    CHOOSE m \in set : \A o \in set : o[1] < m[1] \/ (o[1] = m[1] /\ o[2] <= m[2])

\* Circuit::connect_wire, from end k on: end 2i is the from of wire i, end
\* 2i + 1 its to.  ok is FALSE when an unwrap of graph.connect panics.
RECURSIVE ConnectWireFrom(_, _, _)
ConnectWireFrom(ws, g, k) ==
    IF k >= 2 * Len(ws) THEN [graph |-> g, ok |-> TRUE]
    ELSE LET w == ws[(k \div 2) + 1]
             p == IF k % 2 = 0 THEN w[1].from ELSE w[1].to
             nexus == w[2]
             inp == PortsAt(g, p, "Input")
             outp == PortsAt(g, p, "Output")
             pin == PortInput(LastPort(inp)[1], LastPort(inp)[2])
             pout == PortOutput(LastPort(outp)[1], LastPort(outp)[2])
             g1 == IF inp = {} THEN g ELSE connect(g, pin, nexus)
             g2 == IF outp = {} THEN g1 ELSE connect(g1, pout, nexus)
         IN  IF inp # {} /\ ConnectFails(g, pin, nexus) THEN [graph |-> g, ok |-> FALSE]
             ELSE IF outp # {} /\ ConnectFails(g1, pout, nexus) THEN [graph |-> g1, ok |-> FALSE]
             ELSE ConnectWireFrom(ws, g2, k + 1)

\* Circuit::connect_wire: the wire it is given plays no part.
connect_wire(c, wire) ==
    LET r == ConnectWireFrom(c.wires, c.graph, 0)
    IN  [circuit |-> Circuit(c.zones, c.wires, r.graph), ok |-> r.ok]

\* Circuit::add_wire.  ok is FALSE when the call panics: todo!() when the
\* second end lies on a wire and a nexus has been found already, an unwrap
\* in connect_wire, or the assert of Zone::add_wire.
add_wire(c, wire) ==
    LET box == WireAabb(wire)
        index == Len(c.wires)
        from_hits == intersect_point(c, wire.from)
        to_hits == intersect_point(c, wire.to)
        todo == (to_hits # <<>> /\ from_hits # <<>>) \/ Len(to_hits) >= 2
        found == IF to_hits # <<>> THEN Some(c.wires[to_hits[1] + 1][2])
                 ELSE IF from_hits # <<>>
                      THEN Some(c.wires[from_hits[Len(from_hits)] + 1][2])
                      ELSE None
        made == new_nexus(c.graph, <<>>)
        nexus == IF found = None THEN made.handle ELSE found[1]
        g1 == PushUserdata(IF found = None THEN made.graph ELSE c.graph, nexus, index)
        c1 == Circuit(c.zones, Append(c.wires, <<wire, nexus>>), g1)
        r == connect_wire(c1, Len(c1.wires) - 1)
        covered == {t \in Tiles : /\ ZoneOf(box.min)[1] <= t[1] /\ t[1] <= ZoneOf(box.max)[1]
                                  /\ ZoneOf(box.min)[2] <= t[2] /\ t[2] <= ZoneOf(box.max)[2]}
        z1 == [t \in Tiles |-> IF t \in covered THEN Append(c.zones[t], index) ELSE c.zones[t]]
    IN  IF todo THEN [circuit |-> c, ok |-> FALSE]
        ELSE IF ~r.ok THEN [circuit |-> r.circuit, ok |-> FALSE]
        ELSE IF FlagSet(index, COMPONENT_FLAG) THEN [circuit |-> r.circuit, ok |-> FALSE]
        ELSE [circuit |-> Circuit(z1, r.circuit.wires, r.circuit.graph), ok |-> TRUE]

\* Circuit::add_component followed by the connect_wire that add_wire ends with.
add_componentAndConnect(c, component, position, direction) ==
    LET r == GraphAdd(c.graph, component, position, direction)
        w == connect_wire(Circuit(c.zones, c.wires, r.graph), SENTINEL)
    IN  [circuit |-> w.circuit, handle |-> r.handle,
         ok |-> ~FlagSet(r.handle, HANDLE_FLAG)]
\* Circuit::add_component.  ok is FALSE when the assert on the handle fails.
add_component(c, component, position, direction) ==
    LET r == GraphAdd(c.graph, component, position, direction)
    IN  [circuit |-> Circuit(c.zones, c.wires, r.graph), handle |-> r.handle,
         ok |-> ~FlagSet(r.handle, HANDLE_FLAG)]

\* Circuit::generate_ir, as far as the circuit goes: connect_wire(usize::MAX).
generate_ir(c) == connect_wire(c, SENTINEL)

\* The Circuit the variables hold.
SelfCircuit == Circuit(zones, wires, graph)

\* Circuit::new
CircuitInit ==
    /\ zones = CircuitDefault.zones
    /\ wires = CircuitDefault.wires
    /\ graph = CircuitDefault.graph
    /\ circuit_panicked = FALSE
    /\ circuit_op = "new"
    /\ circuit_prev = "new"
    /\ probed = None

\* ------------------------------------------------------------------ gates

\* The IR the components of simulator/base emit: every op names the slots
\* it reads and the slot it writes.
GateOp(op, a, b, out) == [op |-> op, a |-> a, b |-> b, out |-> out]
NotOp(a, out) == [op |-> "Not", a |-> a, b |-> a, out |-> out]

\* A gate has 2 .. MaxGateInputs inputs (NonZeroOneU8), and the words on its
\* inputs are 0 .. MaxGateValue.
MaxGateInputs == 3
MaxGateValue == 3

\* gate!: generate_ir of AndGate, OrGate and XorGate.
\* for i in inputs.iter().skip(1) { out(IrOp::$op { a: inputs[0], b: *i, out: outputs[0] }) }
gate_generate_ir(op, ins, outs) ==
    [i \in 1 .. Len(ins) - 1 |-> GateOp(op, ins[1], ins[i + 1], outs[1])]

\* NotGate::generate_ir emitting nothing.
not_generate_irNothing(ins, outs) == <<>>
\* NotGate::generate_ir
not_generate_ir(ins, outs) == <<NotOp(ins[1], outs[1])>>

\* One op of interpreter::run on the memory: mem[out] = mem[a] op mem[b],
\* and mem[out] = !mem[a] for Not.  Slot k is mem[k + 1].
interpreter_op(op, mem) ==
    LET a == mem[op.a + 1]
        b == mem[op.b + 1]
    IN  [mem EXCEPT ![op.out + 1] =
            CASE op.op = "And" -> BitAnd(a, b)
              [] op.op = "Or" -> BitOr(a, b)
              [] op.op = "Xor" -> BitXor(a, b)
              [] op.op = "Not" -> BitXor(a, SENTINEL)]

\* interpreter::run(&ir, &mut mem, ..): the ops one after the other.
RECURSIVE interpreter_run(_, _)
interpreter_run(ir, mem) ==
    IF ir = <<>> THEN mem ELSE interpreter_run(Tail(ir), interpreter_op(Head(ir), mem))

\* test::manual_xor of simulator/base: the IR of the five gates, and the
\* memory after it has run on [a, b, 0, 0, 0, 0, 0].
ManualXorIr ==
    gate_generate_ir("And", <<0, 1>>, <<2>>)
        \o gate_generate_ir("Or", <<0, 1>>, <<3>>)
        \o not_generate_ir(<<2>>, <<4>>)
        \o gate_generate_ir("And", <<3, 4>>, <<5>>)
        \o gate_generate_ir("Xor", <<0, 1>>, <<6>>)
manual_xor(a, b) == interpreter_run(ManualXorIr, <<a, b, 0, 0, 0, 0, 0>>)

\* One gate on its own: the inputs in slots 0 .. n - 1, the output in slot n.
RunGate(op, ins) ==
    interpreter_run(gate_generate_ir(op, [i \in 1 .. Len(ins) |-> i - 1], <<Len(ins)>>),
                    ins \o <<0>>)[Len(ins) + 1]

\* -------------------------------------------------------------------- rom

\* contents holds up to MaxRomLen words, each of them one of RomWords, and
\* generate_ir is called up to MaxEmitted times.
MaxRomLen == 1
MaxEmitted == 2
RomWords == {0, 1}

\* struct ReadOnlyMemory and the Arc<[usize]> allocations made for it.  An
\* Arc is the index of its allocation in heap, the words it holds are heap[arc].
Rom(c, arc, h) == [contents |-> c, cached |-> arc, heap |-> h]

\* ReadOnlyMemory::default
RomDefault == Rom(<<>>, None, <<>>)

\* cached.get_or_insert_with(|| self.contents.clone().into()): the Arc held,
\* and a new allocation holding the contents when none is.
get_or_insert_with(rom) ==
    IF rom.cached # None THEN rom
    ELSE Rom(rom.contents, Some(Len(rom.heap) + 1), Append(rom.heap, rom.contents))

\* ReadOnlyMemory::generate_ir: the component afterwards and the ops emitted.
rom_generate_ir(rom, address, out) ==
    IF address # SENTINEL /\ out # SENTINEL
    THEN LET r == get_or_insert_with(rom)
         IN  [rom |-> r,
              ir |-> <<[op |-> "Read", memory |-> r.cached[1], address |-> address, out |-> out]>>]
    ELSE [rom |-> rom, ir |-> <<>>]

\* A property name is the sequence of its characters.
HexDigits == <<"0", "1", "2", "3", "4", "5", "6", "7", "8", "9",
               "a", "b", "c", "d", "e", "f">>
HexUpper == <<"0", "1", "2", "3", "4", "5", "6", "7", "8", "9",
              "A", "B", "C", "D", "E", "F">>
IsHexDigit(c) == \E k \in 1 .. 16 : HexDigits[k] = c \/ HexUpper[k] = c
HexValue(c) == (CHOOSE k \in 1 .. 16 : HexDigits[k] = c \/ HexUpper[k] = c) - 1

\* The digits of from_str_radix, the most significant first.
RECURSIVE HexNumber(_, _)
HexNumber(digits, acc) ==
    IF digits = <<>> THEN acc ELSE HexNumber(Tail(digits), 16 * acc + HexValue(Head(digits)))

\* usize::from_str_radix(src, 16): one optional "+", then one hex digit or
\* more: Some(number), or None for Err(_).  The names of the model are too
\* short to overflow a usize.
from_str_radix(src) ==
    LET digits == IF src # <<>> /\ Head(src) = "+" THEN Tail(src) ELSE src
    IN  IF digits # <<>> /\ \A k \in 1 .. Len(digits) : IsHexDigit(digits[k])
        THEN Some(HexNumber(digits, 0))
        ELSE None

\* name.starts_with("0x")
StartsWith0x(name) == Len(name) >= 2 /\ name[1] = "0" /\ name[2] = "x"

\* ReadOnlyMemory::set_property keeping the cached Arc.
set_propertyCacheKept(rom, name, value) ==
    IF ~StartsWith0x(name) THEN [rom |-> rom, ok |-> FALSE]
    ELSE LET i == from_str_radix(SubSeq(name, 3, Len(name)))
         IN  IF i # None /\ value # None /\ i[1] < Len(rom.contents)
             THEN [rom |-> Rom([rom.contents EXCEPT ![i[1] + 1] = value[1]], rom.cached, rom.heap),
                   ok |-> TRUE]
             ELSE IF i # None /\ value # None /\ i[1] = Len(rom.contents)
             THEN [rom |-> Rom(Append(rom.contents, value[1]), rom.cached, rom.heap), ok |-> TRUE]
             ELSE [rom |-> rom, ok |-> FALSE]
\* ReadOnlyMemory::set_property.  value is value.as_int(): Some(v), or None
\* for a value that is no integer.  ok is FALSE for Err(_).
set_property(rom, name, value) ==
    IF ~StartsWith0x(name) THEN [rom |-> rom, ok |-> FALSE]
    ELSE LET i == from_str_radix(SubSeq(name, 3, Len(name)))
         IN  IF i # None /\ value # None /\ i[1] < Len(rom.contents)
             THEN [rom |-> Rom([rom.contents EXCEPT ![i[1] + 1] = value[1]], None, rom.heap),
                   ok |-> TRUE]
             ELSE IF i # None /\ value # None /\ i[1] = Len(rom.contents)
             THEN [rom |-> Rom(Append(rom.contents, value[1]), None, rom.heap), ok |-> TRUE]
             ELSE [rom |-> rom, ok |-> FALSE]

\* The names and the values set_property is called with: words at the
\* addresses 0 .. 2, and names that are no address.
RomNames ==
    {<<"0", "x", "0">>, <<"0", "x", "0", "0", "1">>, <<"0", "x", "2">>,
     <<"0", "x">>, <<"1">>, <<"0", "x", "g">>}
RomValues == {Some(v) : v \in RomWords} \cup {None}

\* The component the variables hold.
SelfRom == Rom(contents, cached, heap)

\* A ReadOnlyMemory nothing has been called on.
RomInit ==
    /\ contents = RomDefault.contents
    /\ cached = RomDefault.cached
    /\ heap = RomDefault.heap
    /\ emitted = <<>>
    /\ rom_op = [fn |-> "default"]
    /\ rom_ret = TRUE

\* ---------------------------------------------------------------- the log

\* Log::MAX_ENTRIES
MAX_ENTRIES == 1024

\* enum Tag
Tags == {"Success", "Error", "Debug"}

\* The pushes a caller makes, at most MaxPushes of them: the text of each is
\* its number, the tags go round a script of at most MaxScript tags.
MaxPushes == 1027
MaxScript == 2
LogScripts == UNION {[1 .. n -> Tags] : n \in 1 .. MaxScript}

\* Log::push that pops nothing.
pushUnbounded(es, tag, entry) == Append(es, <<tag, entry>>)

\* Log::push: (len >= MAX_ENTRIES).then(|| pop_front()); push_back((tag, entry))
push(es, tag, entry) ==
    Append(IF Len(es) >= MAX_ENTRIES THEN Tail(es) ELSE es, <<tag, entry>>)

\* Log::default
LogInit ==
    /\ entries = <<>>
    /\ pushed = <<>>

\* A log nothing is pushed onto.
LogIdle == LogInit /\ log_script = <<>>

\* ------------------------------------------------- functions called once

\* What a call has come to: nothing yet, a value returned, or a panic.
Pending == <<>>
Returned(v) == <<"returned", v>>
Panicked == <<"panicked">>

\* The coordinates and the offsets ports are placed with: the ends of the
\* ranges and their neighbours.
PortCoords == {0, 127, 128, 65408, 65409, U16_MAX}
PortOffsets == {I8_MIN, -127, -1, 0, 1, 127}
Directions == {"Right", "Down", "Left", "Up"}

\* The coordinates of the wires and points intersect_point is called on.
WireCoords == {0, 1, 2, 4, U16_MAX}
WirePoints == {Point(x, y) : x \in WireCoords, y \in WireCoords}

\* The words on the two inputs of the network of manual_xor.
XorWords == 0 .. 15

PortCalls ==
    {[fn |-> "port_position", p |-> Point(x, y), d |-> d, offset |-> PointOffset(dx, dy)] :
        x \in PortCoords, y \in PortCoords, d \in Directions,
        dx \in PortOffsets, dy \in PortOffsets}
IntersectCalls ==
    {[fn |-> "intersect_point", wire |-> Wire(from, to), point |-> point] :
        from \in WirePoints, to \in WirePoints, point \in WirePoints}
GateCalls ==
    {[fn |-> "gate", op |-> op, ins |-> ins] :
        op \in {"And", "Or", "Xor"},
        ins \in UNION {[1 .. n -> 0 .. MaxGateValue] : n \in 2 .. MaxGateInputs}}
ManualXorCalls == {[fn |-> "manual_xor", a |-> a, b |-> b] : a \in XorWords, b \in XorWords}

\* No function is being called.
FnIdle ==
    /\ fn_call = [fn |-> "none"]
    /\ fn_ret = Pending

\* ----------------------------------------------------------- write_inputs

\* let v = o & mask
MaskValueNoMask(o, mask) == o
MaskValue(o, mask) == BitAnd(o, mask)

\* dirty = self.read[k] & mask != v
InputDirtyAlways(old, mask, v) == TRUE
InputDirty(old, mask, v) == BitAnd(old, mask) # v

\* State::write_inputs from input i (0-based) on.  ok is FALSE when the call
\* panicked: todo!() on a value that is not Set, or an index out of bounds.
RECURSIVE WriteInputsFrom(_, _, _, _, _, _)
WriteInputsFrom(p, inputs, i, rd, wr, ud) ==
    IF i >= Len(inputs) THEN [read |-> rd, write |-> wr, update_dirty |-> ud, ok |-> TRUE]
    ELSE IF i >= Len(p.input_map) THEN WriteInputsFrom(p, inputs, i + 1, rd, wr, ud)
    ELSE LET k == p.input_map[i + 1][1]
             mask == p.input_map[i + 1][2]
             o == inputs[i + 1]
         IN  IF k = SENTINEL THEN WriteInputsFrom(p, inputs, i + 1, rd, wr, ud)
             ELSE IF o.tag # "Set" \/ k \notin DOMAIN rd
             THEN [read |-> rd, write |-> wr, update_dirty |-> ud, ok |-> FALSE]
             ELSE LET v == MaskValue(o.v, mask)
                      dirty == InputDirty(rd[k], mask, v)
                      rd1 == [rd EXCEPT ![k] = v]
                      wr1 == [wr EXCEPT ![k] = v]
                  IN  IF dirty /\ i >= Len(p.input_nodes_map)
                      THEN [read |-> rd1, write |-> wr1, update_dirty |-> ud, ok |-> FALSE]
                      ELSE WriteInputsFrom(p, inputs, i + 1, rd1, wr1,
                               IF dirty THEN ud \cup p.input_nodes_map[i + 1] ELSE ud)

write_inputs(s, inputs) ==
    WriteInputsFrom(s.program, inputs, 0, s.read, s.write, s.update_dirty)

\* ----------------------------------------------------------- read_outputs

\* The value read_outputs stores for an external output mapped to <<i, mask>>.
OutputValueNoMask(rd, i, mask) == IF i = SENTINEL THEN ValueFloating ELSE ValueSet(rd[i])
OutputValue(rd, i, mask) ==
    IF i = SENTINEL THEN ValueFloating ELSE ValueSet(BitAnd(rd[i], mask))

\* State::read_outputs on the caller's slice buf: the slice afterwards.
read_outputs(s, buf) ==
    [j \in 1 .. Len(buf) |->
        IF j - 1 >= Len(s.program.output_map) THEN buf[j]
        ELSE OutputValue(s.read, s.program.output_map[j][1], s.program.output_map[j][2])]

\* read_outputs panics when an output's slot is neither SENTINEL nor a slot.
ReadOutputsPanics(s, buf) ==
    \E j \in 1 .. Min(Len(buf), Len(s.program.output_map)) :
        /\ s.program.output_map[j][1] # SENTINEL
        /\ s.program.output_map[j][1] \notin DOMAIN s.read

\* State::read_nexus (nexus is the index of a NexusHandle).
read_nexus(s, nexus) == ValueSet(s.read[s.program.nexus_map[nexus + 1]])

\* ------------------------------------------------------------------ adapt

\* State::adapt without the loop that copies the old read bank.
adaptWithoutCopy(s, p) == new_state(p)
\* State::adapt
adapt(s, p) ==
    LET n == new_state(p)
        rd == [i \in DOMAIN n.read |-> IF i \in DOMAIN s.read THEN s.read[i] ELSE n.read[i]]
    IN  [n EXCEPT !.read = rd, !.write = rd]

\* ------------------------------------------------------------------- step

\* for n in 0..self.program.nodes.len(): the order step() runs the nodes in.
Schedule(p) == [j \in 1 .. Len(p.nodes) |-> j - 1]

\* The loop of step() over the nodes in the given order, from its j-th node.
RECURSIVE RunNodes(_, _, _, _, _, _)
RunNodes(nodes, order, j, rd, wr, dirty) ==
    IF j > Len(order) THEN [wr |-> wr, dirty |-> dirty, ok |-> TRUE]
    ELSE LET r == run(nodes[order[j] + 1], rd, wr, dirty)
         IN  IF ~r.ok THEN r ELSE RunNodes(nodes, order, j + 1, rd, r.wr, r.dirty)

\* for n in self.update_dirty.drain() {}: what is left of the set.
DrainNothing(set) == set
Drain(set) == {}

\* self.read.copy_from_slice(&self.write): the destination afterwards.
CopyFromSliceOmitted(dst, src) == dst
CopyFromSlice(dst, src) == src

\* State::step with the nodes run in the given order: the State afterwards,
\* what step() returns, and whether it returned at all.
StepIn(s, order) ==
    IF s.mark_dirty # {}
    THEN [state |-> s, ret |-> 0, ok |-> FALSE]
    ELSE LET drained == Drain(s.update_dirty)
             r == RunNodes(s.program.nodes, order, 1, s.read, s.write, s.mark_dirty)
         IN  IF ~r.ok
             THEN [state |-> [s EXCEPT !.update_dirty = drained, !.write = r.wr,
                                       !.mark_dirty = r.dirty],
                   ret |-> 0, ok |-> FALSE]
             ELSE LET rd1 == CopyFromSlice(s.read, r.wr)
                  IN  [state |-> [s EXCEPT !.write = rd1, !.read = r.wr,
                                           !.update_dirty = r.dirty,
                                           !.mark_dirty = drained],
                       ret |-> Cardinality(r.dirty), ok |-> TRUE]

step(s) == StepIn(s, Schedule(s.program))

\* ---------------------------------------------------------------- actions

\* The slices a caller may hand to write_inputs.  Floating stands for both
\* values that are not Set: write_inputs treats Short in the same match arm.
InputValues == {ValueSet(v) : v \in 0 .. MaxValue} \cup {ValueFloating}
InputSlices == UNION {[1 .. n -> InputValues] : n \in 0 .. MaxInputsLen}

\* The slice a caller hands to read_outputs: n values the call overwrites.
OutputSlice(n) == [j \in 1 .. n |-> ValueShort]

SetState(s) ==
    /\ program' = s.program
    /\ update_dirty' = s.update_dirty
    /\ mark_dirty' = s.mark_dirty
    /\ write' = s.write
    /\ read' = s.read

Init ==
    \E p \in Programs :
        /\ program = p
        /\ update_dirty = new_state(p).update_dirty
        /\ mark_dirty = new_state(p).mark_dirty
        /\ write = new_state(p).write
        /\ read = new_state(p).read
        /\ panicked = FALSE
        /\ last_op = "new_state"
        /\ last_inputs = <<>>
        /\ last_ret = 0
        /\ steps = 0
        /\ outputs = <<>>
        /\ ArenaInit
        /\ CircuitInit
        /\ FnIdle
        /\ RomInit
        /\ LogIdle

NewState(p) ==
    /\ ~panicked
    /\ SetState(new_state(p))
    /\ last_op' = "new_state"
    /\ last_inputs' = <<>>
    /\ last_ret' = 0
    /\ steps' = 0
    /\ outputs' = <<>>
    /\ UNCHANGED panicked
    /\ UNCHANGED <<arena_vars, circuit_vars, fn_vars, rom_vars, log_vars>>

Adapt(p) ==
    /\ ~panicked
    /\ SetState(adapt(Self, p))
    /\ last_op' = "adapt"
    /\ last_inputs' = <<>>
    /\ last_ret' = 0
    /\ steps' = 0
    /\ outputs' = <<>>
    /\ UNCHANGED panicked
    /\ UNCHANGED <<arena_vars, circuit_vars, fn_vars, rom_vars, log_vars>>

WriteInputs(inputs) ==
    /\ ~panicked
    /\ LET r == write_inputs(Self, inputs)
       IN  /\ read' = r.read
           /\ write' = r.write
           /\ update_dirty' = r.update_dirty
           /\ panicked' = ~r.ok
    /\ last_op' = "write_inputs"
    /\ last_inputs' = inputs
    /\ last_ret' = 0
    /\ steps' = 0
    /\ outputs' = <<>>
    /\ UNCHANGED <<program, mark_dirty>>
    /\ UNCHANGED <<arena_vars, circuit_vars, fn_vars, rom_vars, log_vars>>

ReadOutputs(n) ==
    /\ ~panicked
    /\ IF ReadOutputsPanics(Self, OutputSlice(n))
       THEN panicked' = TRUE /\ outputs' = <<>>
       ELSE panicked' = FALSE /\ outputs' = read_outputs(Self, OutputSlice(n))
    /\ last_op' = "read_outputs"
    /\ last_inputs' = <<>>
    /\ UNCHANGED <<program, update_dirty, mark_dirty, write, read, last_ret, steps>>
    /\ UNCHANGED <<arena_vars, circuit_vars, fn_vars, rom_vars, log_vars>>

Step ==
    /\ ~panicked
    /\ LET r == step(Self)
       IN  /\ SetState(r.state)
           /\ panicked' = ~r.ok
           /\ last_ret' = r.ret
    /\ last_op' = "step"
    /\ last_inputs' = <<>>
    /\ steps' = Min(steps + 1, MaxSteps)
    /\ outputs' = <<>>
    /\ UNCHANGED <<arena_vars, circuit_vars, fn_vars, rom_vars, log_vars>>

Next ==
    \/ \E p \in Programs : NewState(p)
    \/ \E p \in Programs : Adapt(p)
    \/ \E inputs \in InputSlices : WriteInputs(inputs)
    \/ \E n \in 0 .. MaxOutputsLen : ReadOutputs(n)
    \/ Step

Spec == Init /\ [][Next]_vars

\* ------------------------------------------------------ the arena's calls

\* The State of the program with no nodes, while an arena is exercised.
StateIdle ==
    /\ program = ProgEmpty
    /\ update_dirty = new_state(ProgEmpty).update_dirty
    /\ mark_dirty = new_state(ProgEmpty).mark_dirty
    /\ write = new_state(ProgEmpty).write
    /\ read = new_state(ProgEmpty).read
    /\ panicked = FALSE
    /\ last_op = "new_state"
    /\ last_inputs = <<>>
    /\ last_ret = 0
    /\ steps = 0
    /\ outputs = <<>>

SetArena(a) ==
    /\ list' = a.list
    /\ free' = a.free

\* What insert and insert_with leave behind: the arena, the handle returned
\* and the caller's record of it; nothing but the panic after unreachable!().
Inserted(r, op) ==
    /\ arena_op' = op
    /\ arena_ret' = None
    /\ arena_handle' = r.handle
    /\ arena_panicked' = ~r.ok
    /\ SetArena(r.arena)
    /\ IF r.ok
       THEN /\ live' = [h \in DOMAIN live \cup {r.handle} |->
                           IF h = r.handle THEN r.arena.list[h + 1].value ELSE live[h]]
            /\ removed' = removed \ {r.handle}
            /\ freed' = SelectSeq(freed, LAMBDA h : h # r.handle)
       ELSE UNCHANGED <<live, removed, freed>>

\* arena.insert(element)
ArenaInsert(element) ==
    /\ ~arena_panicked
    /\ free # None \/ Len(list) < MaxSlots
    /\ Inserted(insert(SelfArena, element), "insert")
    /\ UNCHANGED <<state_vars, circuit_vars, fn_vars, rom_vars, log_vars>>

\* arena.insert_with(|h| element that stores h)
ArenaInsertWith(element) ==
    /\ ~arena_panicked
    /\ free # None \/ Len(list) < MaxSlots
    /\ Inserted(insert_with(SelfArena, Closure(element, TRUE)), "insert_with")
    /\ UNCHANGED <<state_vars, circuit_vars, fn_vars, rom_vars, log_vars>>

\* arena.remove(handle)
ArenaRemove(handle) ==
    /\ ~arena_panicked
    /\ LET r == remove(SelfArena, handle)
       IN  /\ SetArena(r.arena)
           /\ arena_ret' = r.ret
           /\ removed' = IF r.ret # None THEN removed \cup {handle} ELSE removed
           /\ freed' = IF r.ret # None THEN Append(freed, handle) ELSE freed
    /\ arena_op' = "remove"
    /\ arena_handle' = handle
    /\ live' = [h \in DOMAIN live \ {handle} |-> live[h]]
    /\ UNCHANGED arena_panicked
    /\ UNCHANGED <<state_vars, circuit_vars, fn_vars, rom_vars, log_vars>>

InitArena == StateIdle /\ ArenaInit /\ CircuitInit /\ FnIdle /\ RomInit /\ LogIdle

NextArena ==
    \/ \E element \in Elements : ArenaInsert(element)
    \/ \E element \in Elements : ArenaInsertWith(element)
    \/ \E handle \in 0 .. MaxSlots : ArenaRemove(handle)

SpecArena == InitArena /\ [][NextArena]_vars

\* ---------------------------------------------------- the circuit's calls

SetCircuit(c) ==
    /\ zones' = c.zones
    /\ wires' = c.wires
    /\ graph' = c.graph
    /\ probed' = None

\* circuit.add_wire(wire)
AddWire(wire) ==
    /\ ~circuit_panicked
    /\ Len(wires) < MaxWires
    /\ \E overflow_checks \in BOOLEAN :
          LET r == add_wire(SelfCircuit, wire)
              overflows == OverflowsAt(SelfCircuit, wire.from) \cup OverflowsAt(SelfCircuit, wire.to)
          IN  /\ overflow_checks => overflows # {}
              /\ SetCircuit(IF overflow_checks THEN SelfCircuit ELSE r.circuit)
              /\ circuit_panicked' = (overflow_checks \/ ~r.ok)
    /\ circuit_op' = "add_wire"
    /\ circuit_prev' = circuit_op
    /\ UNCHANGED <<state_vars, arena_vars, fn_vars, rom_vars, log_vars>>

\* circuit.add_component(component, position, direction)
AddComponent(component, position, direction) ==
    /\ ~circuit_panicked
    /\ Len(graph.nodes) < MaxComponents
    /\ LET r == add_component(SelfCircuit, component, position, direction)
       IN  /\ SetCircuit(r.circuit)
           /\ circuit_panicked' = ~r.ok
    /\ circuit_op' = "add_component"
    /\ circuit_prev' = circuit_op
    /\ UNCHANGED <<state_vars, arena_vars, fn_vars, rom_vars, log_vars>>

\* circuit.generate_ir()
GenerateIr ==
    /\ ~circuit_panicked
    /\ LET r == generate_ir(SelfCircuit)
       IN  /\ SetCircuit(r.circuit)
           /\ circuit_panicked' = ~r.ok
    /\ circuit_op' = "generate_ir"
    /\ circuit_prev' = circuit_op
    /\ UNCHANGED <<state_vars, arena_vars, fn_vars, rom_vars, log_vars>>

\* circuit.intersect_point(position, wire_callback, component_callback), in
\* a build with overflow checks or without them
IntersectPoint(position) ==
    /\ ~circuit_panicked
    /\ \E overflow_checks \in BOOLEAN :
          LET overflows == OverflowsAt(SelfCircuit, position)
              first == CHOOSE k \in overflows : \A j \in overflows : k <= j
          IN  /\ overflow_checks => overflows # {}
              /\ probed' = Some([position |-> position,
                                 hits |-> IF overflow_checks
                                          THEN HitsBefore(SelfCircuit, position, first)
                                          ELSE intersect_point(SelfCircuit, position)])
              /\ circuit_panicked' = overflow_checks
    /\ circuit_op' = "intersect_point"
    /\ circuit_prev' = circuit_op
    /\ UNCHANGED <<zones, wires, graph>>
    /\ UNCHANGED <<state_vars, arena_vars, fn_vars, rom_vars, log_vars>>

InitCircuit == StateIdle /\ ArenaInit /\ CircuitInit /\ FnIdle /\ RomInit /\ LogIdle

NextCircuit ==
    \/ \E wire \in WireMenu : AddWire(wire)
    \/ \E m \in ComponentMenu : AddComponent(m[1], m[2], m[3])
    \/ GenerateIr

SpecCircuit == InitCircuit /\ [][NextCircuit]_vars

\* The calls on a circuit of wires alone, and the look-ups in its zones.
NextIndex ==
    \/ \E wire \in IndexWireMenu : AddWire(wire)
    \/ \E position \in IndexPoints : IntersectPoint(position)

SpecIndex == InitCircuit /\ [][NextIndex]_vars

\* ------------------------------------------- the calls of the functions

\* The call returns.
Return(ret) ==
    /\ fn_ret = Pending
    /\ fn_ret' = ret
    /\ UNCHANGED fn_call
    /\ UNCHANGED <<state_vars, arena_vars, circuit_vars, rom_vars, log_vars>>

\* (d * offset).and_then(|offset| p + offset) of find_ports_at_internal
PortPositionCall ==
    /\ fn_call.fn = "port_position"
    /\ Return(Returned(PortPosition(fn_call.p, fn_call.d, fn_call.offset)))

\* wire.intersect_point(point), in a build with overflow checks or without
IntersectPointCall ==
    /\ fn_call.fn = "intersect_point"
    /\ \E overflow_checks \in BOOLEAN :
          IF overflow_checks /\ WireIntersectPointOverflows(fn_call.wire, fn_call.point)
          THEN Return(Panicked)
          ELSE Return(Returned(WireIntersectPoint(fn_call.wire, fn_call.point)))

\* The IR of one gate, run on the words of its inputs.
GateCall ==
    /\ fn_call.fn = "gate"
    /\ Return(Returned(RunGate(fn_call.op, fn_call.ins)))

\* test::manual_xor of simulator/base on the words a and b
ManualXorCall ==
    /\ fn_call.fn = "manual_xor"
    /\ Return(Returned(manual_xor(fn_call.a, fn_call.b)))

InitFn ==
    /\ StateIdle /\ ArenaInit /\ CircuitInit /\ RomInit /\ LogIdle
    /\ \/ fn_call \in PortCalls
       \/ fn_call \in IntersectCalls
       \/ fn_call \in GateCalls
       \/ fn_call \in ManualXorCalls
    /\ fn_ret = Pending

NextFn ==
    \/ PortPositionCall
    \/ IntersectPointCall
    \/ GateCall
    \/ ManualXorCall

SpecFn == InitFn /\ [][NextFn]_vars

\* ------------------------------------------- the calls on a ReadOnlyMemory

SetRom(rom) ==
    /\ contents' = rom.contents
    /\ cached' = rom.cached
    /\ heap' = rom.heap

\* rom.set_property(name, value)
RomSetProperty(name, value) ==
    /\ Len(contents) < MaxRomLen \/ ~set_property(SelfRom, name, value).ok
          \/ Len(set_property(SelfRom, name, value).rom.contents) = Len(contents)
    /\ LET r == set_property(SelfRom, name, value)
       IN  /\ SetRom(r.rom)
           /\ rom_ret' = r.ok
    /\ rom_op' = [fn |-> "set_property", name |-> name, value |-> value]
    /\ UNCHANGED emitted
    /\ UNCHANGED <<state_vars, arena_vars, circuit_vars, fn_vars, log_vars>>

\* rom.generate_ir(&[address], &[out], ..): the Arc of the Read emitted, if
\* any, is handed to the Program being built.
RomGenerateIr(address, out) ==
    /\ Len(emitted) < MaxEmitted
    /\ LET r == rom_generate_ir(SelfRom, address, out)
       IN  /\ SetRom(r.rom)
           /\ emitted' = emitted \o [k \in 1 .. Len(r.ir) |-> r.ir[k].memory]
           /\ rom_ret' = (r.ir # <<>>)
    /\ rom_op' = [fn |-> "generate_ir", address |-> address, out |-> out]
    /\ UNCHANGED <<state_vars, arena_vars, circuit_vars, fn_vars, log_vars>>

InitRom == StateIdle /\ ArenaInit /\ CircuitInit /\ FnIdle /\ RomInit /\ LogIdle

NextRom ==
    \/ \E name \in RomNames, value \in RomValues : RomSetProperty(name, value)
    \/ \E address \in {0, SENTINEL}, out \in {1, SENTINEL} : RomGenerateIr(address, out)

SpecRom == InitRom /\ [][NextRom]_vars

\* Every variable has the shape the source gives it.
TypeOK ==
    /\ program \in Programs
    /\ update_dirty \subseteq NodeIds(program)
    /\ mark_dirty \subseteq NodeIds(program)
    /\ DOMAIN read = 0 .. program.memory_size - 1
    /\ DOMAIN write = 0 .. program.memory_size - 1
    /\ panicked \in BOOLEAN
    /\ steps \in 0 .. MaxSteps

\* ------------------------------------------------------ the calls on a Log

\* log.push(tag, entry)
Push(tag, entry) ==
    /\ Len(pushed) < MaxPushes
    /\ entry = Len(pushed)
    /\ tag = log_script[(Len(pushed) % Len(log_script)) + 1]
    /\ entries' = push(entries, tag, entry)
    /\ pushed' = Append(pushed, <<tag, entry>>)
    /\ UNCHANGED log_script
    /\ UNCHANGED <<state_vars, arena_vars, circuit_vars, fn_vars, rom_vars>>

InitLog ==
    /\ StateIdle /\ ArenaInit /\ CircuitInit /\ FnIdle /\ RomInit
    /\ LogInit
    /\ log_script \in LogScripts

NextLog == \E tag \in Tags, entry \in 0 .. MaxPushes : Push(tag, entry)

SpecLog == InitLog /\ [][NextLog]_vars

\* ----------------------------------------------------- shapes of programs

\* Node m reads a slot that node n saves.
DependsOn(p, m, n) == ReadBy(p, m) \cap SavedBy(p, n) # {}

\* The nodes that read, directly or through other nodes, what a node of
\* `set` saves (k rounds of the closure).
RECURSIVE Downstream(_, _, _)
Downstream(p, set, k) ==
    IF k = 0 THEN set
    ELSE Downstream(p, set \cup {m \in NodeIds(p) : \E n \in set : DependsOn(p, m, n)}, k - 1)

\* Purely combinational: no node reads, directly or through other nodes,
\* what it saves itself.
Acyclic(p) ==
    \A n \in NodeIds(p) :
        n \notin Downstream(p, {m \in NodeIds(p) : DependsOn(p, m, n)}, Len(p.nodes))

\* No slot is saved by two nodes.
SingleDriver(p) ==
    \A m, n \in NodeIds(p) : m # n => SavedBy(p, m) \cap SavedBy(p, n) = {}

MaxOf(set) == IF set = {} THEN 0 ELSE CHOOSE x \in set : \A y \in set : y <= x

\* The number of nodes on the longest chain that ends in node n (of an
\* acyclic program), and the longest chain of the program.
RECURSIVE Level(_, _)
Level(p, n) == 1 + MaxOf({Level(p, m) : m \in {k \in NodeIds(p) : DependsOn(p, n, k)}})
Depth(p) == MaxOf({Level(p, n) : n \in NodeIds(p)})

\* Every order the nodes of p can be run in.
Orders(p) ==
    {o \in [1 .. Len(p.nodes) -> NodeIds(p)] : \A i, j \in 1 .. Len(p.nodes) : i # j => o[i] # o[j]}

\* ------------------------------------------------------------------ claims

\* C1: between calls (a call that panics never returns), the read bank
\* equals the write bank element by element.
BankConsistency == ~panicked => read = write

\* C1 witness: a step() has returned and has changed a slot of both banks.
BankConsistencyWitness ==
    /\ ~panicked
    /\ last_op = "step"
    /\ program = ProgChain
    /\ read[1] # 0
    /\ write[1] = read[1]

\* C2: mark_dirty is empty whenever step() is entered and whenever it has
\* returned, so the debug_assert! of step() never fails.
MarkDirtyEmpty == ~panicked => mark_dirty = {}

\* C2 witness: step() has run twice in a row and the second run was entered
\* with nodes in update_dirty and left nodes in it.
MarkDirtyEmptyWitness ==
    /\ ~panicked
    /\ last_op = "step"
    /\ steps >= 2
    /\ update_dirty # {}
    /\ mark_dirty = {}

\* C3 (the claim as stated): step() returns the size of update_dirty, and
\* once step() has returned 0 a further step() with no write_inputs in
\* between leaves every slot of the read bank unchanged.
StepZeroMeansQuiescent ==
    (~panicked /\ steps >= 1) =>
        /\ last_ret = Cardinality(update_dirty)
        /\ last_ret = 0 => step(Self).state.read = read

\* C4 (the claim as stated): for a cycle-free program, update_dirty is empty
\* after the second of two step() calls in succession.
QuiescentAfterTwoSteps ==
    (~panicked /\ Acyclic(program) /\ steps >= 2) => update_dirty = {}

\* C4 (amended): for a cycle-free program in which no slot has two drivers
\* and whose longest chain has d nodes, update_dirty is empty after d + 1
\* step() calls in succession (step() has returned 0).
QuiescentAfterDepthSteps ==
    (/\ ~panicked
     /\ Acyclic(program)
     /\ SingleDriver(program)
     /\ steps >= Depth(program) + 1) => (update_dirty = {} /\ last_ret = 0)

\* C4 witness: the chain of three nodes has been stepped four times in a row
\* on an input that reaches its output.
QuiescentAfterDepthStepsWitness ==
    /\ ~panicked
    /\ program = ProgChain
    /\ steps >= Depth(ProgChain) + 1
    /\ read[0] # 0
    /\ read[3] # 0
    /\ update_dirty = {}

\* C5 (the claim as stated): whatever order step() runs the nodes in, the
\* read bank after the step is the same.
ScheduleIndependence ==
    ~panicked =>
        \A o \in Orders(program) : StepIn(Self, o).state.read = step(Self).state.read

\* C5 (amended): when no slot of the program is saved by two nodes, the read
\* bank after a step is the same whatever order the nodes are run in.
ScheduleIndependenceSingleDriver ==
    (~panicked /\ SingleDriver(program)) =>
        \A o \in Orders(program) : StepIn(Self, o).state.read = step(Self).state.read

\* C5 witness: a program of three nodes in a chain, in a state that a step
\* changes (each order saves values the other nodes read).
ScheduleIndependenceWitness ==
    /\ ~panicked
    /\ program = ProgChain
    /\ Cardinality(Orders(program)) = 6
    /\ read[0] # 0
    /\ step(Self).state.read # read

\* The node that saves a slot last when step() runs the nodes in its order,
\* and what the slot holds after a step in which every node has seen nothing
\* but the banks as they were when the step began.
Savers(p, slot) == {n \in NodeIds(p) : slot \in SavedBy(p, n)}
SnapshotValue(s, slot) ==
    IF Savers(s.program, slot) = {} THEN s.read[slot]
    ELSE run(s.program.nodes[MaxOf(Savers(s.program, slot)) + 1], s.read, s.write, {}).wr[slot]

\* C7: every slot of the read bank after a step() holds what its node
\* computes from the read bank as it was when the step began: no node reads
\* what another node has saved in the same step, and the saved values are
\* in the read bank once the step has returned.
SnapshotOrdering ==
    [][(last_op' = "step" /\ ~panicked') =>
          \A slot \in DOMAIN read : read'[slot] = SnapshotValue(Self, slot)]_vars

\* C7 witness: after two steps of the chain, slot 2 does not hold the
\* negation of slot 1 as it is now: the second node has read slot 1 as it
\* was before the first node saved to it in the same step.
SnapshotOrderingWitness ==
    /\ ~panicked
    /\ last_op = "step"
    /\ program = ProgChain
    /\ read[1] # 0
    /\ read[2] # BitXor(read[1], 3)

\* The inputs of a write_inputs call that are written to a slot: the
\* 0-based indices inside the slice and the input map whose slot is not the
\* SENTINEL.
MappedInputs(p, inputs) ==
    {i \in 0 .. Min(Len(inputs), Len(p.input_map)) - 1 : p.input_map[i + 1][1] # SENTINEL}

\* C8: after write_inputs, read_nexus of a nexus mapped to the slot of an
\* input returns Set(v & mask) for the value v given for that input.
MaskDiscipline ==
    (last_op = "write_inputs" /\ ~panicked) =>
        \A i \in MappedInputs(program, last_inputs) :
            \A nexus \in 0 .. Len(program.nexus_map) - 1 :
                program.nexus_map[nexus + 1] = program.input_map[i + 1][1] =>
                    read_nexus(Self, nexus)
                        = ValueSet(BitAnd(last_inputs[i + 1].v, program.input_map[i + 1][2]))

\* C8 witness: a 1-bit input has been written with a value of two bits.
MaskDisciplineWitness ==
    /\ ~panicked
    /\ last_op = "write_inputs"
    /\ program = ProgGates
    /\ Len(last_inputs) = 2
    /\ last_inputs[2] = ValueSet(2)
    /\ read_nexus(Self, 1) = ValueSet(0)

\* The slot, the mask and the masked value of input i of a write_inputs call.
InputSlot(p, i) == p.input_map[i + 1][1]
InputMask(p, i) == p.input_map[i + 1][2]
InputValue(p, inputs, i) == BitAnd(inputs[i + 1].v, InputMask(p, i))

\* C9 (the claim as stated): after write_inputs both banks hold value & mask
\* at the slot of every mapped input, and update_dirty has gained the nodes
\* of exactly the inputs whose masked value differs from the previous
\* content of the slot.
WriteInputsMarksChanged ==
    [][(last_op' = "write_inputs" /\ ~panicked') =>
          LET mapped == MappedInputs(program, last_inputs')
              changed == {i \in mapped :
                             read[InputSlot(program, i)] # InputValue(program, last_inputs', i)}
          IN  /\ \A i \in mapped :
                    /\ read'[InputSlot(program, i)] = InputValue(program, last_inputs', i)
                    /\ write'[InputSlot(program, i)] = InputValue(program, last_inputs', i)
              /\ update_dirty' = update_dirty \cup
                     UNION {program.input_nodes_map[i + 1] : i \in changed}]_vars

\* C9 (amended): after write_inputs both banks hold value & mask at the slot
\* of every mapped input, and update_dirty has gained the nodes of exactly
\* the inputs whose masked value differs from the previous content of the
\* slot taken under the mask of the input.
WriteInputsMarksChangedUnderMask ==
    [][(last_op' = "write_inputs" /\ ~panicked') =>
          LET mapped == MappedInputs(program, last_inputs')
              changed == {i \in mapped :
                             BitAnd(read[InputSlot(program, i)], InputMask(program, i))
                                 # InputValue(program, last_inputs', i)}
          IN  /\ \A i \in mapped :
                    /\ read'[InputSlot(program, i)] = InputValue(program, last_inputs', i)
                    /\ write'[InputSlot(program, i)] = InputValue(program, last_inputs', i)
              /\ update_dirty' = update_dirty \cup
                     UNION {program.input_nodes_map[i + 1] : i \in changed}]_vars

\* C9 witness: of two inputs written after a step, the first has changed
\* and has woken its node, the second has not changed and has woken none.
WriteInputsMarksChangedWitness ==
    /\ ~panicked
    /\ last_op = "write_inputs"
    /\ program = ProgShort
    /\ last_inputs = <<ValueSet(1), ValueSet(0)>>
    /\ read[0] = 1 /\ write[0] = 1
    /\ update_dirty = {0}

AdaptPreservesPrefix ==
    [][(last_op' = "adapt") =>
          /\ \A i \in DOMAIN read \cap DOMAIN read' : read'[i] = read[i]
          /\ DOMAIN read' = 0 .. program'.memory_size - 1
          /\ write' = read']_vars

\* C11 witness: a state adapted to the four-slot chain whose first slots
\* hold values no fresh state holds and whose last slot is still zero.
AdaptPreservesPrefixWitness ==
    /\ ~panicked
    /\ last_op = "adapt"
    /\ program = ProgChain
    /\ read[0] = 2
    /\ read[1] = 1
    /\ read[3] = 0

\* The ops of program p that name the SENTINEL slot.
SentinelOps(p) ==
    {<<n, k>> \in NodeIds(p) \X (1 .. 8) :
        /\ k <= Len(p.nodes[n + 1])
        /\ p.nodes[n + 1][k].op \in ReadingOps \cup {"CheckDirty", "Save"}
        /\ p.nodes[n + 1][k].a = SENTINEL}

\* C12: a step of a program with an op on the SENTINEL slot does not fault:
\* the access is skipped and the step returns.
UnconnectedPortsSkipped ==
    (last_op = "step" /\ SentinelOps(program) # {}) => ~panicked

\* C13: write_inputs panics when the slice has more or fewer elements than
\* the program has external inputs.
WriteInputsPanicsOnLengthMismatch ==
    [][(last_op' = "write_inputs" /\ Len(last_inputs') # Len(program.input_map))
          => panicked']_vars

\* C14: a remove that returns None (the slot was free already, or the handle
\* is out of range) leaves the slots, the head of the free list and its
\* links as they were.
RemoveFreeIsIdempotent ==
    [][(arena_op' = "remove" /\ arena_ret' = None) => UNCHANGED <<list, free>>]_vars

\* C15: the handle insert / insert_with returns is the handle of no value
\* stored at the time of the call, the closure of insert_with has been
\* given that same handle, and get(h) is the value inserted under h for as
\* long as remove(h) has not been called.
HandlesUniqueAmongLive ==
    /\ [](\A h \in DOMAIN live : get(SelfArena, h) = Some(live[h]))
    /\ [][(arena_op' \in {"insert", "insert_with"} /\ ~arena_panicked') =>
             /\ get(SelfArena, arena_handle') = None
             /\ arena_handle' \notin DOMAIN live
             /\ get(SelfArena', arena_handle') # None
             /\ arena_op' = "insert_with" =>
                   get(SelfArena', arena_handle')[1].handle = Some(arena_handle')]_vars

\* C15 witness: insert_with has reused the middle slot of three while the
\* values under the two other handles are still stored.
HandlesUniqueAmongLiveWitness ==
    /\ ~arena_panicked
    /\ arena_op = "insert_with"
    /\ arena_handle = 1
    /\ DOMAIN live = {0, 1, 2}
    /\ live[1].handle = Some(1)
    /\ live[0].handle = None

\* C16 as stated: once remove(h) has returned the value, get(h) is None in
\* every later state of the arena: whatever call comes next, a handle that
\* remove has returned the value of reads None after it.
RemovedStaysDangling ==
    [][\A h \in removed : get(SelfArena', h) = None]_vars

\* C16: once remove(h) has returned the value, get(h) is None in every later
\* state up to the next insert or insert_with that returns h again.
RemovedDanglingUntilReuse ==
    \A h \in removed : get(SelfArena, h) = None

\* C16 witness: a handle has been removed, another insert and another remove
\* have followed, and the handle has not been handed out again.
RemovedDanglingUntilReuseWitness ==
    /\ ~arena_panicked
    /\ arena_op = "remove"
    /\ removed = {0, 2}
    /\ DOMAIN live = {1}
    /\ free = Some(0)

\* The wires of the circuit by index, the wire and the nexus of index i.
WireIds == 0 .. Len(wires) - 1
WireAt(i) == wires[i + 1][1]
NexusOf(i) == wires[i + 1][2]

\* Two wires have an end in common.
SharesEndpoint(v, w) == {v.from, v.to} \cap {w.from, w.to} # {}

\* The wires reachable from those of the set through chains of wires that
\* have an end in common.
RECURSIVE EndpointChain(_)
EndpointChain(set) ==
    LET more == {j \in WireIds : \E i \in set : SharesEndpoint(WireAt(i), WireAt(j))}
    IN  IF more \subseteq set THEN set ELSE EndpointChain(set \cup more)

\* C17: add_wire returns, and after it all wires linked through chains of
\* shared ends are in one nexus (so a wire that bridges two nexuses has
\* merged them).
Connectivity ==
    circuit_op = "add_wire" =>
        /\ ~circuit_panicked
        /\ \A i \in WireIds : \A j \in EndpointChain({i}) : NexusOf(j) = NexusOf(i)

\* The nexuses of the graph by handle, and those that hold the port
\* <<node, port>> among their inputs / among their outputs.
NexusIds == 0 .. Len(graph.nexuses) - 1
NexusesOfInput(np) == {k \in NexusIds : np \in graph.nexuses[k + 1].inputs}
NexusesOfOutput(np) == {k \in NexusIds : np \in graph.nexuses[k + 1].outputs}

\* C18: in every state add_component, add_wire and generate_ir lead to,
\* an input port and an output port is a member of at most one nexus, which
\* is the one the port table of its node names: a port connected anew has
\* left the nexus it was in.
PortUniqueness ==
    \A n \in 0 .. Len(graph.nodes) - 1 :
        /\ \A i \in 0 .. Len(graph.nodes[n + 1].inputs) - 1 :
              NexusesOfInput(<<n, i>>) =
                  {k \in NexusIds : graph.nodes[n + 1].inputs[i + 1] = Some(k)}
        /\ \A o \in 0 .. Len(graph.nodes[n + 1].outputs) - 1 :
              NexusesOfOutput(<<n, o>>) =
                  {k \in NexusIds : graph.nodes[n + 1].outputs[o + 1] = Some(k)}

\* C18 witness: the input of the Out at (5,5) has been connected to nexus 0
\* through the wire that ends there, and then to nexus 1 through a later
\* wire that starts there; nexus 0 has lost it.
PortUniquenessWitness ==
    /\ ~circuit_panicked
    /\ Len(graph.nodes) = 1
    /\ graph.nodes[1].component = CompOut
    /\ Len(wires) = 3
    /\ WireAt(0).to = Point(5, 5)
    /\ WireAt(2).from = Point(5, 5)
    /\ NexusOf(0) = 0
    /\ NexusOf(2) = 1
    /\ graph.nodes[1].inputs[1] = Some(1)
    /\ graph.nexuses[1].inputs = {}
    /\ graph.nexuses[2].inputs = {<<0, 0>>}

\* The point lies on the closed segment of the wire.
OnSegment(p, w) ==
    /\ Min(w.from.x, w.to.x) <= p.x /\ p.x <= Max(w.from.x, w.to.x)
    /\ Min(w.from.y, w.to.y) <= p.y /\ p.y <= Max(w.from.y, w.to.y)
    /\ (w.to.x - w.from.x) * (p.y - w.from.y) = (w.to.y - w.from.y) * (p.x - w.from.x)

\* An end of one of the two wires lies on the other.
Touches(v, w) ==
    OnSegment(v.from, w) \/ OnSegment(v.to, w) \/ OnSegment(w.from, v) \/ OnSegment(w.to, v)

\* The wires linked to those of the set through chains of wires that touch.
RECURSIVE TouchChain(_)
TouchChain(set) ==
    LET more == {j \in WireIds : \E i \in set : Touches(WireAt(i), WireAt(j))}
    IN  IF more \subseteq set THEN set ELSE TouchChain(set \cup more)

\* The point is common to both wires and an end of neither.
CrossAt(p, v, w) ==
    /\ OnSegment(p, v) /\ OnSegment(p, w)
    /\ p \notin {v.from, v.to, w.from, w.to}

\* C19: two wires of which no end lies on the other (they have at most a
\* midpoint of both in common) and which no chain of touching wires links
\* are in different nexuses.
MidpointOverlapDoesNotMerge ==
    ~circuit_panicked =>
        \A i \in WireIds : \A j \in WireIds \ TouchChain({i}) : NexusOf(i) # NexusOf(j)

\* C19 witness: the wire (5,4)-(5,7) and the diagonal (4,4)-(6,6) cross at
\* (5,5), no end of one lies on the other, and they are the only wires.
MidpointOverlapDoesNotMergeWitness ==
    /\ ~circuit_panicked
    /\ Len(wires) = 2
    /\ CrossAt(Point(5, 5), WireAt(0), WireAt(1))
    /\ ~Touches(WireAt(0), WireAt(1))
    /\ NexusOf(0) # NexusOf(1)

\* Where the ports of a node lie: its inputs, its outputs.
InputAt(node, i) == PortPosition(node.position, node.direction, node.component.inputs[i])
OutputAt(node, o) == PortPosition(node.position, node.direction, node.component.outputs[o])

Rotated(d, offset) ==
    CASE d = "Right" -> PointOffset(offset.x, offset.y)
      [] d = "Down" -> PointOffset(0 - offset.y, offset.x)
      [] d = "Left" -> PointOffset(0 - offset.x, 0 - offset.y)
      [] d = "Up" -> PointOffset(offset.y, 0 - offset.x)

\* The parts of the offset the direction negates.
Negated(d, offset) ==
    CASE d = "Right" -> {}
      [] d = "Down" -> {offset.y}
      [] d = "Left" -> {offset.x, offset.y}
      [] d = "Up" -> {offset.x}

\* C21: the port with the offset (dx, dy) of a component at p that faces d
\* lies at p + Rotated(d, (dx, dy)); when a part that is negated is i8::MIN
\* or a coordinate of the sum lies outside 0 .. 65535 there is no port, and
\* the call returns None: it never panics.
PortPlacementNeverCrashes ==
    fn_call.fn = "port_position" /\ fn_ret # Pending =>
        LET r == Rotated(fn_call.d, fn_call.offset)
            x == fn_call.p.x + r.x
            y == fn_call.p.y + r.y
        IN  fn_ret = Returned(IF \/ I8_MIN \in Negated(fn_call.d, fn_call.offset)
                                 \/ x \notin 0 .. U16_MAX
                                 \/ y \notin 0 .. U16_MAX
                              THEN None
                              ELSE Some(Point(x, y)))

\* C21 witness: a component at (65535, 0) facing Left, port offset
\* (-128, -1): -128 cannot be negated, and the call has returned None.
PortPlacementNeverCrashesWitness ==
    /\ fn_call.fn = "port_position"
    /\ fn_call.p = Point(U16_MAX, 0)
    /\ fn_call.d = "Left"
    /\ fn_call.offset = PointOffset(I8_MIN, -1)
    /\ fn_ret = Returned(None)

\* The point lies on the closed segment of the wire, in exact arithmetic:
\* (x2 - x1) * (yp - y1) = (y2 - y1) * (xp - x1), and the point is inside
\* the bounding box of the wire.
OnClosedSegment(wire, point) ==
    /\ Min(wire.from.x, wire.to.x) <= point.x /\ point.x <= Max(wire.from.x, wire.to.x)
    /\ Min(wire.from.y, wire.to.y) <= point.y /\ point.y <= Max(wire.from.y, wire.to.y)
    /\ ExactProduct(wire.to.x - wire.from.x, point.y - wire.from.y)
         = ExactProduct(wire.to.y - wire.from.y, point.x - wire.from.x)

\* C22: Wire::intersect_point(p) returns true exactly when p lies on the
\* closed segment of the wire, whatever the slope of the wire and the order
\* of its ends.
IntersectPointIsOnSegment ==
    fn_call.fn = "intersect_point" /\ fn_ret # Pending =>
        fn_ret = Returned(OnClosedSegment(fn_call.wire, fn_call.point))

\* C23: the network o0 = AND(NOT(AND(i0, i1)), OR(i0, i1)), o1 = XOR(i0, i1)
\* of manual_xor, once its IR has been run on the words a and b, holds
\* a XOR b in the slot of o0 (slot 5) and in the slot of o1 (slot 6).
ManualXorComputesXor ==
    fn_call.fn = "manual_xor" /\ fn_ret # Pending =>
        /\ fn_ret[1] = "returned"
        /\ fn_ret[2][6] = BitXor(fn_call.a, fn_call.b)
        /\ fn_ret[2][7] = BitXor(fn_call.a, fn_call.b)

\* C23 witness: the words of the test, 0b1100 and 0b0110; both slots hold 0b1010.
ManualXorComputesXorWitness ==
    /\ fn_call.fn = "manual_xor"
    /\ fn_call.a = 12 /\ fn_call.b = 6
    /\ fn_ret # Pending
    /\ fn_ret[2][6] = 10 /\ fn_ret[2][7] = 10

\* in[0] op in[1] op ... op in[n - 1], from the left.
RECURSIVE Fold(_, _)
Fold(op, ins) ==
    IF Len(ins) = 1 THEN ins[1]
    ELSE LET rest == Fold(op, SubSeq(ins, 1, Len(ins) - 1))
             last == ins[Len(ins)]
         IN  CASE op = "And" -> BitAnd(rest, last)
               [] op = "Or" -> BitOr(rest, last)
               [] op = "Xor" -> BitXor(rest, last)

\* C24: the IR an And, Or or Xor gate with n >= 2 inputs emits leaves
\* in[0] op in[1] op ... op in[n - 1] in the slot of its output.
GateFolds ==
    fn_call.fn = "gate" /\ fn_ret # Pending =>
        fn_ret = Returned(Fold(fn_call.op, fn_call.ins))

\* The word a ReadOnlyMemory with the contents c gives out at the address a.
RomWord(c, a) == IF a \in 0 .. Len(c) - 1 THEN c[a + 1] ELSE 0

\* C25: with In -> ReadOnlyMemory -> Out, a step() after write_inputs([a])
\* leaves c[a] on the nexus of the output when a < len(c) and 0 when a is
\* out of range, and read_outputs reports that word once no node is dirty.
RomLookup ==
    /\ [][(/\ program = ProgRomLookup
           /\ last_op = "write_inputs" /\ ~panicked
           /\ Len(last_inputs) >= 1 /\ last_inputs[1].tag = "Set"
           /\ last_op' = "step" /\ ~panicked') =>
              read'[1] = RomWord(RomLookupContents, last_inputs[1].v)]_vars
    /\ [](/\ program = ProgRomLookup
          /\ last_op = "read_outputs" /\ ~panicked
          /\ update_dirty = {} /\ Len(outputs) >= 1
          => outputs[1] = ValueSet(RomWord(RomLookupContents, read[0])))

\* C25 witness: the address 2, out of range, has been written and stepped,
\* and read_outputs has reported the word 0.
RomLookupWitness ==
    /\ program = ProgRomLookup
    /\ last_op = "read_outputs" /\ ~panicked
    /\ update_dirty = {}
    /\ read[0] = 2 /\ read[1] = 0
    /\ outputs = <<ValueSet(0)>>

\* C26: insert and insert_with take the slot the latest remove that returned
\* a value has freed and that no insert has taken since; the list grows, by
\* one slot, only when no slot is free.
ReuseLastFreedFirst ==
    [][(arena_op' \in {"insert", "insert_with"} /\ ~arena_panicked') =>
          /\ freed # <<>> =>
                arena_handle' = freed[Len(freed)] /\ Len(list') = Len(list)
          /\ freed = <<>> =>
                arena_handle' = Len(list) /\ Len(list') = Len(list) + 1
          /\ Len(list') # Len(list) =>
                \A k \in 1 .. Len(list) : list[k].tag # "Free"]_vars

\* The links from link on visit Free slots of the list only, no slot twice,
\* and end in None.
RECURSIVE FreeChainOk(_, _)
FreeChainOk(link, seen) ==
    \/ link = None
    \/ /\ link[1] \notin seen
       /\ link[1] < Len(list)
       /\ list[link[1] + 1].tag = "Free"
       /\ FreeChainOk(list[link[1] + 1].next, seen \cup {link[1]})

\* C28: after every insert, insert_with and remove, free is None or the
\* index of a Free slot of the list, the next links from there visit Free
\* slots only and end without a cycle, and no insert_with has reached
\* unreachable!().
FreeListWellFormed == FreeChainOk(free, {}) /\ ~arena_panicked

\* The address a property name stands for, None when it names none.
RomAddress(name) ==
    IF StartsWith0x(name) THEN from_str_radix(SubSeq(name, 3, Len(name))) ELSE None

\* C27: every Read that generate_ir emits is over the contents as they are
\* at that call; the tables emitted before keep their words; a generate_ir
\* that follows an emitting generate_ir with no call in between emits the
\* same table; a set_property that fails changes neither the contents nor
\* the cached table; and a set_property at the address len(contents) that
\* succeeds appends the one word.
RomEditsReachOnlyNewPrograms ==
    [][/\ (rom_op'.fn = "generate_ir" /\ rom_ret') =>
              /\ Len(emitted') = Len(emitted) + 1
              /\ heap'[emitted'[Len(emitted')]] = contents'
              /\ contents' = contents
       /\ \A k \in 1 .. Len(emitted) :
              emitted'[k] = emitted[k] /\ heap'[emitted[k]] = heap[emitted[k]]
       /\ (rom_op.fn = "generate_ir" /\ rom_ret /\ rom_op'.fn = "generate_ir" /\ rom_ret') =>
              emitted'[Len(emitted')] = emitted[Len(emitted)]
       /\ (rom_op'.fn = "set_property" /\ ~rom_ret') =>
              contents' = contents /\ cached' = cached
       /\ (rom_op'.fn = "set_property" /\ rom_ret') =>
              /\ rom_op'.value # None
              /\ RomAddress(rom_op'.name) # None
              /\ RomAddress(rom_op'.name)[1] <= Len(contents)
              /\ RomAddress(rom_op'.name)[1] = Len(contents) =>
                    contents' = Append(contents, rom_op'.value[1])
              /\ RomAddress(rom_op'.name)[1] < Len(contents) =>
                    contents' = [contents EXCEPT ![RomAddress(rom_op'.name)[1] + 1] = rom_op'.value[1]]
       /\ (/\ rom_op'.fn = "set_property"
           /\ \/ rom_op'.value = None
              \/ RomAddress(rom_op'.name) = None
              \/ RomAddress(rom_op'.name)[1] > Len(contents)) => ~rom_ret'
      ]_vars

\* C27 witness: a Read over [1] was emitted, then the word at address 0 was
\* set to 0 and a second Read emitted: it is over [0], and the table of the
\* first Read still holds [1].
RomEditsReachOnlyNewProgramsWitness ==
    /\ rom_op.fn = "generate_ir" /\ rom_ret
    /\ Len(emitted) = 2
    /\ heap[emitted[1]] = <<1>>
    /\ heap[emitted[2]] = <<0>>
    /\ contents = <<0>>

\* C29: add_wire returns for every wire, whatever add_wire and add_component
\* calls came before it: it reaches no todo!() and no unwrap that fails.
AddWireIsTotal == circuit_op = "add_wire" => ~circuit_panicked

\* The circuit after add_wire has been called with the wires of ws, in
\* their order, on a circuit without wires; ok is FALSE when a call panicked.
RECURSIVE Replay(_)
Replay(ws) ==
    IF ws = <<>> THEN [circuit |-> CircuitDefault, ok |-> TRUE]
    ELSE LET before == Replay(SubSeq(ws, 1, Len(ws) - 1))
         IN  IF before.ok THEN add_wire(before.circuit, ws[Len(ws)]) ELSE before

\* The wires of a circuit, grouped by nexus.
Partition(c) ==
    {{c.wires[i][1] : i \in {j \in 1 .. Len(c.wires) : c.wires[j][2] = c.wires[k][2]}} :
        k \in 1 .. Len(c.wires)}

\* C30: the wires of the circuit, added in any other order in which every
\* add_wire returns, are grouped into the same nexuses.
WireOrderDoesNotMatter ==
    circuit_op = "add_wire" /\ ~circuit_panicked =>
        \A p \in Permutations(1 .. Len(wires)) :
            LET r == Replay([i \in 1 .. Len(wires) |-> wires[p[i]][1]])
            IN  r.ok => Partition(r.circuit) = Partition(SelfCircuit)

\* C31: after add_wire calls, intersect_point(p) calls wire_callback with
\* the index of every stored wire that covers the grid point p.
ProbedHits == {probed[1].hits[k] : k \in 1 .. Len(probed[1].hits)}
SpatialIndexComplete ==
    circuit_op = "intersect_point" =>
        \A i \in WireIds : OnClosedSegment(WireAt(i), probed[1].position) => i \in ProbedHits

\* The same of the look-ups that return: in a build without overflow checks
\* every one does.
SpatialIndexCompleteWhenReturned ==
    (circuit_op = "intersect_point" /\ ~circuit_panicked) =>
        \A i \in WireIds : OnClosedSegment(WireAt(i), probed[1].position) => i \in ProbedHits

\* A wire found in a zone other than the zone of its first end.
SpatialIndexSecondZone ==
    /\ circuit_op = "intersect_point" /\ ~circuit_panicked
    /\ \E i \in WireIds :
          /\ i \in ProbedHits
          /\ ZoneOf(probed[1].position) # ZoneOf(WireAt(i).from)
          /\ ZoneOf(probed[1].position) # ZoneOf(WireAt(i).to)

\* C32: the log holds at most MAX_ENTRIES entries, the entries pushed last
\* in the order of their pushes, and a push onto a full log drops the
\* oldest entry and no other.
LastPushed ==
    SubSeq(pushed, Len(pushed) - Min(Len(pushed), MAX_ENTRIES) + 1, Len(pushed))
LogIsBoundedFifo ==
    /\ [](Len(entries) <= MAX_ENTRIES /\ entries = LastPushed)
    /\ [][Len(entries) = MAX_ENTRIES =>
            /\ Len(entries') = MAX_ENTRIES
            /\ \A k \in 1 .. MAX_ENTRIES - 1 : entries'[k] = entries[k + 1]
            /\ entries'[MAX_ENTRIES] = pushed'[Len(pushed')]]_vars

\* A full log that has dropped its two oldest entries.
LogIsBoundedFifoWitness ==
    /\ Len(pushed) = MAX_ENTRIES + 2
    /\ Len(entries) = MAX_ENTRIES
    /\ entries[1] = pushed[3]
    /\ entries[1] # pushed[1]

=========================================================================
